---- MODULE Spec2Model ----
(***************************************************************************)
(* Model of the Phase 3 inference bridge                                   *)
(* (android/app/src/main/cpp/llama_bridge_phase3_real.cpp): the two global *)
(* registries `models` and `contexts`, the shared handle counter           *)
(* `next_id`, the streaming state machine of a RealInferenceContext and    *)
(* the memory governor (checkMemoryHealth, forceMemoryCleanup,             *)
(* recoverFromMemoryError).  One action per JNI entry point; every action  *)
(* is the whole handler.  The host serialises the calls (spec section 5),  *)
(* so handlers are atomic.                                                 *)
(*                                                                         *)
(* Sizes are bytes, as in the source.  Text is a sequence of one-character *)
(* strings; a token string is such a sequence too.  A context's `model`    *)
(* pointer is modelled by the handle under which the model object was      *)
(* registered (handles are never reissued, so the handle names the object  *)
(* even after the object has been deleted: the pointer is then dangling).  *)
(***************************************************************************)
EXTENDS Integers, Sequences, FiniteSets, TLC

VARIABLES
    models,      \* std::map<int64_t, RealTensorModel*> models       (line 166)
    contexts,    \* std::map<int64_t, RealInferenceContext*> contexts (line 167)
    next_id,     \* static int64_t next_id = 1                       (line 168)
    crashed,     \* the process was killed by a fault (undefined behaviour)
    call,        \* the last JNI call: its name, handle argument and result
    issued       \* history: the handles returned so far, in order

vars == <<models, contexts, next_id, crashed, call, issued>>

----------------------------------------------------------------------------
(* Bounds of the model *)

\* handles issued by loadModel/createContext during a behaviour
MaxNew == 2
\* largest valid max_tokens argument passed to startStreaming/generateText
MaxTokArg == 2
\* the random draws of the sampler are the fractions 0/DrawSteps ..
\* DrawSteps/DrawSteps of the interval [0, 1]
DrawSteps == 4

(* Program constants *)

MAX_MEMORY_LIMIT == 512 * 1024 * 1024       \* checkMemoryHealth, line 1046
MAX_TOTAL_MEMORY == 512 * 1024 * 1024       \* createContext, line 1338
WORK_BUFFER_SIZE == 16 * 1024 * 1024        \* createContext, line 1334
MAX_TENSOR_SIZE == 32 * 1024 * 1024         \* loadRealTensorModel, line 692
MAX_MODEL_SIZE == 1024 * 1024 * 1024        \* loadModel, line 1230
MAX_TOKENS_LIMIT == 2048                    \* lines 1448 and 1658
MAX_INPUT_LEN == 8192                       \* lines 1461 and 1665
GENERATE_MAX_TOKENS == 20                   \* generateResponsePhase3Streaming, line 909
MAX_SUBWORD_LEN == 10                       \* tokenizeSubword, line 290
KEEP_THRESHOLD == 1024                      \* forceMemoryCleanup, line 1089
KEEP_RECENT == 512                          \* forceMemoryCleanup, line 1092
SIZEOF_INT == 4                             \* sizeof(int), line 133
UNK_ID == 1                                 \* <unk>, lines 304 and 355
BOS_ID == 2                                 \* <s>, line 317
EOS_ID == 3                                 \* </s>, line 890
TOP_K == 50                                 \* line 842
FALLBACK_LIMIT == 100                       \* line 870

Min(a, b) == IF a <= b THEN a ELSE b

\* the handles issued before the pre-filled initial state: one for each
\* MAX_TENSOR_SIZE bytes of the ceiling
Prefill == MAX_MEMORY_LIMIT \div MAX_TENSOR_SIZE
\* the one pre-filled handle that is a context (a context of model 1)
PrefillContext == 2

----------------------------------------------------------------------------
(* Characters: <cctype> in the "C" locale, over the characters used here *)

LowerLetters == <<"a","b","c","d","e","f","g","h","i","j","k","l","m",
                  "n","o","p","q","r","s","t","u","v","w","x","y","z">>
UpperLetters == <<"A","B","C","D","E","F","G","H","I","J","K","L","M",
                  "N","O","P","Q","R","S","T","U","V","W","X","Y","Z">>
Digits == {"0","1","2","3","4","5","6","7","8","9"}

Range(s) == {s[i] : i \in 1..Len(s)}

\* std::isalnum(c) || c == '_'   (line 326)
IsWordChar(c) == c \in Range(LowerLetters) \cup Range(UpperLetters) \cup Digits \cup {"_"}

\* std::tolower(c)   (line 327)
ToLower(c) ==
    IF c \in Range(UpperLetters)
    THEN LowerLetters[CHOOSE i \in 1..26 : UpperLetters[i] = c]
    ELSE c

\* the punctuation that gets its own token (line 348)
IsPunct(c) == c \in {".", ",", "!", "?", ":", ";"}

----------------------------------------------------------------------------
(* Tokenizer: tokenizeSubword (280-310) and tokenizeAdvanced (313-373).    *)
(* t2i is the model's token_to_id map, a function from token strings.      *)

\* the for loop run from length 1 upwards: the shortest known prefix
RECURSIVE ShortestPrefixFrom(_, _, _, _)
ShortestPrefixFrom(remaining, n, len, t2i) ==
    IF n > len THEN 0
    ELSE IF SubSeq(remaining, 1, n) \in DOMAIN t2i THEN n
    ELSE ShortestPrefixFrom(remaining, n + 1, len, t2i)

LongestPrefixLen_Shortest(remaining, len, t2i) ==
    ShortestPrefixFrom(remaining, 1, len, t2i)

\* the for loop of lines 290-300: the longest prefix of `remaining`, of
\* length len down to 1, that is a key of token_to_id; 0 when none is
RECURSIVE LongestPrefixLen(_, _, _)
LongestPrefixLen(remaining, len, t2i) ==
    IF len < 1 THEN 0
    ELSE IF SubSeq(remaining, 1, len) \in DOMAIN t2i THEN len
    ELSE LongestPrefixLen(remaining, len - 1, t2i)

RECURSIVE SubwordLoop(_, _, _)
SubwordLoop(remaining, tokens, t2i) ==
    IF remaining = <<>> THEN tokens
    ELSE LET len == LongestPrefixLen(remaining,
                                     Min(Len(remaining), MAX_SUBWORD_LEN), t2i)
         IN  IF len = 0
             THEN Append(tokens, UNK_ID)
             ELSE SubwordLoop(SubSeq(remaining, len + 1, Len(remaining)),
                              Append(tokens, t2i[SubSeq(remaining, 1, len)]),
                              t2i)

tokenizeSubword(word, t2i) == SubwordLoop(word, <<>>, t2i)

\* lines 333-340 and 363-369: exact match, else subword fallback
WordTokens(word, t2i) ==
    IF word \in DOMAIN t2i THEN <<t2i[word]>> ELSE tokenizeSubword(word, t2i)

\* the scan of lines 323-359 from position i, then the final word (361-370)
RECURSIVE ScanText(_, _, _, _, _)
ScanText(text, i, tokens, current_word, t2i) ==
    IF i > Len(text)
    THEN IF current_word # <<>>
         THEN tokens \o WordTokens(current_word, t2i)
         ELSE tokens
    ELSE LET c == text[i]
         IN  IF IsWordChar(c)
             THEN ScanText(text, i + 1, tokens,
                           Append(current_word, ToLower(c)), t2i)
             ELSE LET flushed == IF current_word # <<>>
                                 THEN tokens \o WordTokens(current_word, t2i)
                                 ELSE tokens
                      punct   == IF IsPunct(c)
                                 THEN IF <<c>> \in DOMAIN t2i
                                      THEN <<t2i[<<c>>]>>
                                      ELSE <<UNK_ID>>
                                 ELSE <<>>
                  IN  ScanText(text, i + 1, flushed \o punct, <<>>, t2i)

\* the scan without the push_back of line 317
tokenizeAdvanced_NoBos(text, t2i) == ScanText(text, 1, <<>>, <<>>, t2i)

tokenizeAdvanced(text, t2i) == ScanText(text, 1, <<BOS_ID>>, <<>>, t2i)

----------------------------------------------------------------------------
(* Container files and the loader: loadTensorWithQuantization (222-277)    *)
(* and loadRealTensorModel (560-776).  A file is what the loader reads of  *)
(* it: whether it opens, its size, whether gguf_init_from_file accepts it  *)
(* (signature and structure), the metadata keys and the tensor directory.  *)
(* A metadata key that is absent is NoKey.                                 *)

NoKey == -1

\* the built-in fallback vocabulary, basic_tokens (lines 656-664)
basic_tokens == <<
    <<"<","p","a","d",">">>, <<"<","u","n","k",">">>, <<"<","s",">">>,
    <<"<","/","s",">">>, <<"t","h","e">>, <<"a">>, <<"a","n">>,
    <<"a","n","d">>, <<"o","r">>, <<"b","u","t">>, <<"i","n">>, <<"o","n">>,
    <<"a","t">>, <<"t","o">>, <<"f","o","r">>, <<"o","f">>,
    <<"w","i","t","h">>, <<"I">>, <<"y","o","u">>, <<"h","e">>,
    <<"s","h","e">>, <<"i","t">>, <<"w","e">>, <<"t","h","e","y">>,
    <<"a","m">>, <<"i","s">>, <<"a","r","e">>, <<"w","a","s">>,
    <<"w","e","r","e">>, <<"h","e","l","l","o">>, <<"h","i">>,
    <<"h","o","w">>, <<"w","h","a","t">>, <<"w","h","e","n">>,
    <<"w","h","e","r","e">>, <<"w","h","y">>, <<"w","h","o">>,
    <<"c","a","n">>, <<"w","i","l","l">>, <<"w","o","u","l","d">>,
    <<"g","o","o","d">>, <<"b","a","d">>, <<"y","e","s">>, <<"n","o">>,
    <<"p","l","e","a","s","e">>, <<"t","h","a","n","k">>,
    <<"h","e","l","p">>, <<"t","i","m","e">>, <<"d","a","y">>,
    <<"n","i","g","h","t">>, <<"t","e","n","s","o","r">>,
    <<"m","o","d","e","l">>, <<"p","h","a","s","e">>, <<"a","i">>,
    <<"n","e","u","r","a","l">>, <<"n","e","t","w","o","r","k">>,
    <<"g","g","u","f">>, <<"l","l","a","m","a">>, <<"c","h","a","t">>,
    <<"r","e","a","l">>, <<"d","a","t","a">>,
    <<"l","o","a","d","i","n","g">>,
    <<"i","n","f","e","r","e","n","c","e">>, <<"m","a","t","r","i","x">>,
    <<"a","t","t","e","n","t","i","o","n">>, <<"l","a","y","e","r">>,
    <<"e","m","b","e","d","d","i","n","g">>
>>

\* std::to_string(i) for i >= 0, as a sequence of characters
RECURSIVE to_string(_)
to_string(i) ==
    LET d == <<"0","1","2","3","4","5","6","7","8","9">>[(i % 10) + 1]
    IN  IF i < 10 THEN <<d>> ELSE Append(to_string(i \div 10), d)

\* "<token_" + std::to_string(i) + ">"   (lines 629, 644, 674)
Placeholder(i) == <<"<","t","o","k","e","n","_">> \o to_string(i) \o <<">">>

\* the token stored for entry i of the embedded array (lines 622-648)
EmbeddedToken(tokens, i) ==
    LET token_data == tokens[i + 1]
    IN  IF Len(token_data) > 0 /\ Len(token_data) <= 100
        THEN token_data
        ELSE Placeholder(i)

\* model->vocab after the vocabulary section (lines 605-679): entry i+1 is
\* the string pushed for id i
BuildVocab(file, n_vocab) ==
    IF file.has_tokens
    THEN [k \in 1..Min(Len(file.tokens), n_vocab) |->
              EmbeddedToken(file.tokens, k - 1)]
    ELSE [k \in 1..(IF n_vocab > Len(basic_tokens) THEN n_vocab
                    ELSE Len(basic_tokens)) |->
              IF k <= Len(basic_tokens) THEN basic_tokens[k]
              ELSE Placeholder(k - 1)]

\* model->token_to_id: token_to_id[token] = i in increasing i, so a string
\* that occurs twice keeps the id of its last occurrence
BuildTokenToId(vocab) ==
    [s \in Range(vocab) |->
        (CHOOSE k \in 1..Len(vocab) :
            /\ vocab[k] = s
            /\ \A j \in 1..Len(vocab) : vocab[j] = s => j <= k) - 1]

\* model->id_to_token: id_to_token[i] = token for every i pushed
BuildIdToToken(vocab) == [i \in 0..(Len(vocab) - 1) |-> vocab[i + 1]]

\* the tensor types the loader distinguishes (ggml_type)
TensorTypes == {"F32", "F16", "Q4_0", "Q4_K", "Q6_K", "Q8_0"}

\* element_count without the caps of lines 232-237
ElementCount_Uncapped(tensor_type, tensor_size) ==
    IF tensor_type = "F32" THEN tensor_size \div 4
    ELSE IF tensor_type = "F16" THEN tensor_size \div 2
    ELSE IF tensor_type \in {"Q4_K", "Q4_0", "Q6_K"} THEN tensor_size \div 8
    ELSE Min(tensor_size, 1024)

\* element_count of loadTensorWithQuantization (lines 230-238)
ElementCount(tensor_type, tensor_size) ==
    IF tensor_type = "F32" THEN Min(tensor_size \div 4, 256)
    ELSE IF tensor_type = "F16" THEN Min(tensor_size \div 2, 512)
    ELSE IF tensor_type \in {"Q4_K", "Q4_0", "Q6_K"}
         THEN Min(128, tensor_size \div 8)
    ELSE Min(tensor_size, 1024)

\* name_str.find("token_embd") or name_str.find("output.weight") (727-728),
\* over the tensor names that occur in the files of the model
IsEssential(name) == name \in {"token_embd.weight", "output.weight"}

RECURSIVE SumSizes(_, _)
SumSizes(dir, i) ==
    IF i > Len(dir) THEN 0 ELSE dir[i].size + SumSizes(dir, i + 1)

\* model->tensor_data_size (lines 684-696)
\* a loader that attributes no bytes to the model
TensorDataSize_Zero(file) == 0

TensorDataSize(file) == Min(SumSizes(file.tensors, 1), MAX_TENSOR_SIZE)

\* What the ggml pool answers to the k-th ggml_new_tensor_1d call of one
\* load (lines 243, 748 and 760): TRUE for a tensor, FALSE for NULL.
\*   "ok"         every call succeeds
\*   "null"       every call fails
\*   "first_null" only the first call fails
\*   "one_left"   the first call fails, the second succeeds, the third fails
PoolAnswer(pool, k) ==
    IF pool = "ok" THEN TRUE
    ELSE IF pool = "null" THEN FALSE
    ELSE IF pool = "first_null" THEN k > 1
    ELSE k = 2

\* the selection loop of lines 720-741: tensors maps each loaded name to
\* its element count; the call that is answered NULL ends the loop
RECURSIVE LoadTensors(_, _, _, _, _)
LoadTensors(dir, i, tensors_loaded, tensors, pool) ==
    IF i > Len(dir) \/ tensors_loaded >= 3 THEN tensors
    ELSE IF IsEssential(dir[i].name)
    THEN IF PoolAnswer(pool, tensors_loaded + 1)
         THEN LoadTensors(dir, i + 1, tensors_loaded + 1,
                  [n \in DOMAIN tensors \cup {dir[i].name} |->
                      IF n = dir[i].name
                      THEN ElementCount(dir[i].type, dir[i].size)
                      ELSE tensors[n]],
                  pool)
         ELSE tensors                       \* break, line 738
    ELSE LoadTensors(dir, i + 1, tensors_loaded, tensors, pool)

NoTensors == [n \in {} |-> 0]

\* lines 745-771: the two demo tensors when nothing was loaded
DemoTensors == [n \in {"token_embd.weight", "output.weight"} |->
                   IF n = "token_embd.weight" THEN 64 ELSE 32]

\* whether loadTensorWithQuantization returned true for a tensor of the
\* directory (tensors_loaded > 0 at line 745)
Decoded(file, pool) ==
    DOMAIN LoadTensors(file.tensors, 1, 0, NoTensors, pool) # {}

\* model->tensors when loadRealTensorModel returns true.  With no tensor
\* decoded, each demo tensor is created if the pool answers its call (lines
\* 748-769); these are the calls after the one the selection loop made, if
\* it made one.
BuildTensors(file, pool) ==
    LET t    == LoadTensors(file.tensors, 1, 0, NoTensors, pool)
        base == IF \E i \in 1..Len(file.tensors) :
                       IsEssential(file.tensors[i].name)
                THEN 1 ELSE 0
    IN  IF DOMAIN t # {} THEN t
        ELSE [n \in {x \in {"token_embd.weight"} : PoolAnswer(pool, base + 1)}
                    \cup {x \in {"output.weight"} :
                             PoolAnswer(pool, base + 2)}
                 |-> DemoTensors[n]]

\* n_vocab (lines 587-588)
NVocab(file) == IF file.vocab_size = NoKey THEN 32000 ELSE file.vocab_size

\* The environment of one loadRealTensorModel attempt:                     
\*   "ok"        every allocation succeeds                                  
\*   "bad_alloc" std::make_unique throws (line 697)                         
\*   "init_null" ggml_init returns NULL (line 710)                          
\*   "pool_null" ggml_new_tensor_1d returns NULL every time                 
LoadEnvs == {"ok", "bad_alloc", "init_null", "pool_null"}

\* the pool of an environment; "first_null" and "one_left" are environments
\* too, named as their pools
PoolOf(env) ==
    IF env = "pool_null" THEN "null"
    ELSE IF env \in {"first_null", "one_left"} THEN env
    ELSE "ok"

\* loadRealTensorModel: "false" (lines 570-573, 711-714), "throw" (line
\* 697) or "true" with the model object it filled in
loadRealTensorModel(file, env) ==
    IF ~file.gguf_ok THEN [status |-> "false"]
    ELSE IF env = "bad_alloc" THEN [status |-> "throw"]
    ELSE IF env = "init_null" THEN [status |-> "false"]
    ELSE LET vocab == BuildVocab(file, NVocab(file))
         IN  [status |-> "true",
              model  |-> [loaded           |-> TRUE,
                          n_vocab          |-> NVocab(file),
                          vocab            |-> vocab,
                          token_to_id      |-> BuildTokenToId(vocab),
                          id_to_token      |-> BuildIdToToken(vocab),
                          tensors          |-> BuildTensors(file, PoolOf(env)),
                          tensor_data_size |-> TensorDataSize(file)]]

----------------------------------------------------------------------------
(* Inputs of the model: the files, texts and arguments the host passes     *)

TinyTokens == << <<"<","p","a","d",">">>, <<"<","u","n","k",">">>,
                 <<"<","s",">">>, <<"<","/","s",">">>,
                 <<"a">>, <<"a","b">>, <<".">> >>

\* a well-formed container whose tensor data exceeds the 32 MiB arena
BigFile ==
    [openable |-> TRUE, file_size |-> 48 * 1024 * 1024, gguf_ok |-> TRUE,
     vocab_size |-> 7, has_tokens |-> TRUE, tokens |-> TinyTokens,
     tensors |-> << [name |-> "token_embd.weight", type |-> "Q4_K",
                     size |-> 24 * 1024 * 1024],
                    [name |-> "blk.0.attn_q.weight", type |-> "Q6_K",
                     size |-> 4 * 1024 * 1024],
                    [name |-> "output.weight", type |-> "F16",
                     size |-> 20 * 1024 * 1024] >>]

\* a well-formed container with little tensor data
SmallFile ==
    [openable |-> TRUE, file_size |-> 8192, gguf_ok |-> TRUE,
     vocab_size |-> 7, has_tokens |-> TRUE, tokens |-> TinyTokens,
     tensors |-> << [name |-> "output.weight", type |-> "F32",
                     size |-> 4096] >>]

\* a file that opens but does not carry the container signature
BadMagicFile ==
    [openable |-> TRUE, file_size |-> 4096, gguf_ok |-> FALSE,
     vocab_size |-> NoKey, has_tokens |-> FALSE, tokens |-> <<>>,
     tensors |-> <<>>]

\* a path that cannot be opened
MissingFile == [BadMagicFile EXCEPT !.openable = FALSE, !.file_size = 0]

\* a file of more than MAX_MODEL_SIZE bytes
HugeFile == [BigFile EXCEPT !.file_size = MAX_MODEL_SIZE + 1]

Files == {BigFile, BadMagicFile, MissingFile, HugeFile}

LongText == [i \in 1..(MAX_INPUT_LEN + 1) |-> "a"]

Texts == {<<>>, <<"A","b"," ","z",".">>, LongText}

MaxTokArgs == {0, MaxTokArg, MAX_TOKENS_LIMIT + 1}

\* the ids the sampler is taken to draw: the roulette default 0 (line 817)
\* and </s>
SampleIds == {0, EOS_ID}

\* the handles the host addresses: the first MaxNew ones issued from the
\* empty state, and the first pre-filled model, the pre-filled context and
\* the MaxNew handles issued after the pre-filled ones
AddressedNow(id) ==
    IF id > Prefill
    THEN {1, PrefillContext} \cup ((Prefill + 1)..(Prefill + MaxNew))
    ELSE 1..MaxNew

----------------------------------------------------------------------------
(* RealInferenceContext (83-139) and the memory functions (1015-1154)      *)

\* a context as createContext registers it (lines 105-107, 1324-1383);
\* embeddings and logits are never filled on the streaming path, which is
\* the only one generateText takes (line 1475), and are left out
NewContext(model_id) ==
    [model                  |-> model_id,
     initialized            |-> TRUE,
     input_tokens           |-> <<>>,
     generated_tokens       |-> <<>>,
     full_context_tokens    |-> <<>>,
     is_streaming           |-> FALSE,
     max_tokens_to_generate |-> 0,
     tokens_generated       |-> 0,
     work_buffer_size       |-> WORK_BUFFER_SIZE]

\* RealInferenceContext::getMemoryUsage (131-138)
ContextMemoryUsage(c) ==
    c.work_buffer_size
    + Len(c.input_tokens) * SIZEOF_INT
    + Len(c.generated_tokens) * SIZEOF_INT
    + Len(c.full_context_tokens) * SIZEOF_INT

RECURSIVE SumOver(_, _)
SumOver(f, S) ==
    IF S = {} THEN 0
    ELSE LET x == CHOOSE y \in S : TRUE
         IN  f[x] + SumOver(f, S \ {x})

\* getTotalMemoryUsage (1015-1028) of registries ms and cs
getTotalMemoryUsage(ms, cs) ==
    SumOver([h \in DOMAIN ms |-> ms[h].tensor_data_size], DOMAIN ms)
    + SumOver([h \in DOMAIN cs |-> ContextMemoryUsage(cs[h])], DOMAIN cs)

\* checkMemoryHealth (1045-1065).  The second loop never fails: a model is
\* registered only after loadRealTensorModel set tensor_data and ggml_ctx.
checkMemoryHealth(ms, cs) == ~(getTotalMemoryUsage(ms, cs) > MAX_MEMORY_LIMIT)

\* lines 1089-1096: keep only the recent context
TrimContext(c) ==
    IF Len(c.full_context_tokens) > KEEP_THRESHOLD
    THEN [c EXCEPT !.full_context_tokens =
              SubSeq(c.full_context_tokens,
                     Len(c.full_context_tokens) - KEEP_RECENT + 1,
                     Len(c.full_context_tokens))]
    ELSE c

\* forceMemoryCleanup without the eviction loop of lines 1070-1081
forceMemoryCleanup_KeepIdle(cs) == [h \in DOMAIN cs |-> TrimContext(cs[h])]

\* forceMemoryCleanup (1067-1102): the context registry it leaves
forceMemoryCleanup(cs) ==
    [h \in {x \in DOMAIN cs : cs[x].is_streaming} |-> TrimContext(cs[h])]

Restrict(f, S) == [x \in S |-> f[x]]

\* lines 1120-1125 with the comparison reversed: the smallest handle
MostRecentModel_Oldest(ms) ==
    IF DOMAIN ms = {} THEN 0
    ELSE CHOOSE h \in DOMAIN ms : \A g \in DOMAIN ms : h <= g

\* lines 1120-1125
MostRecentModel(ms) ==
    IF DOMAIN ms = {} THEN 0
    ELSE CHOOSE h \in DOMAIN ms : \A g \in DOMAIN ms : g <= h

\* recoverFromMemoryError (1104-1154): the registries it leaves and its
\* return value
recoverFromMemoryError(ms, cs) ==
    LET cs1 == forceMemoryCleanup(cs)
    IN  IF checkMemoryHealth(ms, cs1)
        THEN [models |-> ms, contexts |-> cs1, ret |-> TRUE]
        ELSE LET ms2 == Restrict(ms, DOMAIN ms \cap {MostRecentModel(ms)})
                 cs2 == Restrict(cs1, {})
             IN  [models |-> ms2, contexts |-> cs2,
                  ret |-> checkMemoryHealth(ms2, cs2)]

\* "if (!checkMemoryHealth()) { if (!recoverFromMemoryError()) return .. }"
\* (1175-1181, 1316-1322, 1433-1439, 1643-1649)
HealthGate(ms, cs) ==
    IF checkMemoryHealth(ms, cs)
    THEN [models |-> ms, contexts |-> cs, ret |-> TRUE]
    ELSE recoverFromMemoryError(ms, cs)

\* isStreamingComplete (899-901)
isStreamingComplete(c) ==
    ~c.is_streaming \/ c.tokens_generated >= c.max_tokens_to_generate

\* the JNI isStreamingComplete (1760-1783)
IsStreamingCompleteJNI(cs, h) ==
    IF h \notin DOMAIN cs THEN TRUE ELSE isStreamingComplete(cs[h])

\* startStreamingInference storing a budget that is one too large
startStreamingInference_OffByOne(c, text, max_tokens, t2i) ==
    LET toks == tokenizeAdvanced(text, t2i)
    IN  [c EXCEPT !.is_streaming = TRUE,
                  !.max_tokens_to_generate = max_tokens + 1,
                  !.tokens_generated = 0,
                  !.generated_tokens = <<>>,
                  !.input_tokens = toks,
                  !.full_context_tokens = toks]

\* startStreamingInference (779-794) on context c with token map t2i
startStreamingInference(c, text, max_tokens, t2i) ==
    LET toks == tokenizeAdvanced(text, t2i)
    IN  [c EXCEPT !.is_streaming = TRUE,
                  !.max_tokens_to_generate = max_tokens,
                  !.tokens_generated = 0,
                  !.generated_tokens = <<>>,
                  !.input_tokens = toks,
                  !.full_context_tokens = toks]

\* lines 875-878 without the end-token check of lines 889-893
AppendToken_NoEndCheck(c, best_token) ==
    [c EXCEPT !.full_context_tokens = Append(@, best_token),
              !.generated_tokens = Append(@, best_token),
              !.tokens_generated = @ + 1]

\* lines 875-893 of generateNextStreamingToken: the context after best_token
\* was sampled
AppendToken(c, best_token) ==
    [c EXCEPT !.full_context_tokens = Append(@, best_token),
              !.generated_tokens = Append(@, best_token),
              !.tokens_generated = @ + 1,
              !.is_streaming = IF best_token = EOS_ID THEN FALSE ELSE @]

UnkText == <<"<","u","n","k",">">>

\* token_text of lines 881-887
TokenText(i2t, best_token) ==
    IF best_token \in DOMAIN i2t THEN i2t[best_token] ELSE UnkText

\* the token map a context reads through its model pointer; through a
\* dangling pointer it reads the map RealTensorModel::cleanup left (71-75)
EmptyMap == [s \in {} |-> 0]
TokenToIdOf(ms, c) ==
    IF c.model \in DOMAIN ms THEN ms[c.model].token_to_id ELSE EmptyMap
IdToTokenOf(ms, c) ==
    IF c.model \in DOMAIN ms THEN ms[c.model].id_to_token ELSE EmptyMap

----------------------------------------------------------------------------
(* The JNI entry points (1156-1907)                                        *)

Extend(f, k, v) == [x \in DOMAIN f \cup {k} |-> IF x = k THEN v ELSE f[x]]
Remove(f, k) == [x \in DOMAIN f \ {k} |-> f[x]]

\* The record of a call holds the name op, the handle argument h, the
\* result ret, whether the call returned, for loadModel the file and for
\* startStreaming whether max_tokens and the text were valid.  k counts the getNextStreamingToken calls made on
\* handle h in a row directly after a successful startStreaming of h (k = 0
\* for that startStreaming, counted up to MaxTokArg); k = -1 for a call that
\* is not part of such a run.
RunLength(h) ==
    IF call.h = h /\ call.k >= 0 THEN Min(call.k + 1, MaxTokArg) ELSE -1

\* the model caps the handles issued in one behaviour at MaxNew
HandleBudgetLeft ==
    \/ next_id <= MaxNew
    \/ next_id > Prefill /\ next_id <= Prefill + MaxNew

\* what undefined behaviour does when it is reached: the read or write
\* through the dangling pointer goes to the freed object as it was left
\* ("stale"), or the process is killed ("fault")
UBOutcomes == {"stale", "fault"}

\* undefined behaviour is reached only through a pointer that dangles: a
\* context whose model was deleted, or an object the recovery deletes
\* inside the call, which takes a failed health check
UBChoices ==
    IF \/ ~checkMemoryHealth(models, contexts)
       \/ \E c \in DOMAIN contexts : contexts[c].model \notin DOMAIN models
    THEN UBOutcomes ELSE {"stale"}

\* whether a dangling model pointer compares equal to a live model's
\* pointer matters only when some context's model was deleted
AliasChoices ==
    IF \E c \in DOMAIN contexts : contexts[c].model \notin DOMAIN models
    THEN BOOLEAN ELSE {FALSE}

\* the environments of the two load attempts of one loadModel call; the
\* second attempt exists only after the first returned false
LoadEnvPairs ==
    {p \in LoadEnvs \X LoadEnvs : p[1] = "init_null" \/ p[2] = "ok"}

Failed(reg) == [models |-> reg.models, contexts |-> reg.contexts,
                status |-> "fail"]

\* lines 1263-1272 of loadModel: validation of the loaded model
ValidateLoaded(model, reg) ==
    IF ~model.loaded \/ DOMAIN model.tensors = {}
    THEN Failed(reg)
    ELSE [models |-> reg.models, contexts |-> reg.contexts,
          status |-> "ok", model |-> model]

\* history of one loadModel call: how many times loadRealTensorModel ran,
\* and the return value of the recovery that followed the first run
\* ("none" when no recovery followed it)
Told(ret) == IF ret THEN "true" ELSE "false"
Ran(o, runs, recovery) == o @@ [runs |-> runs, recovery |-> recovery]

\* history of one loadModel call: what the last run of loadRealTensorModel
\* left when it returned true, whether a tensor of the directory was decoded
\* and model->tensors; status "none" otherwise
LastRun(file, env1, env2, runs) ==
    LET env == IF runs = 2 THEN env2 ELSE env1
        r   == IF runs = 0 THEN [status |-> "none"]
               ELSE loadRealTensorModel(file, env)
    IN  IF r.status = "true"
        THEN [status |-> "true", decoded |-> Decoded(file, PoolOf(env)),
              tensors |-> r.model.tensors]
        ELSE [status |-> "none"]

\* lines 1238-1261 of loadModel: the load, the recovery and the one retry
LoadWithRetry(file, env1, env2, pre) ==
    LET r1 == loadRealTensorModel(file, env1)
    IN  IF r1.status = "throw"                      \* catch, lines 1283-1288
        THEN LET rec == recoverFromMemoryError(pre.models, pre.contexts)
             IN  Ran(Failed(rec), 1, Told(rec.ret))
        ELSE IF r1.status = "false"
        THEN LET rec == recoverFromMemoryError(pre.models, pre.contexts)
             IN  IF ~rec.ret THEN Ran(Failed(rec), 1, Told(rec.ret))
                 ELSE LET r2 == loadRealTensorModel(file, env2)
                      IN  IF r2.status = "false"
                          THEN Ran(Failed(rec), 2, Told(rec.ret))
                          ELSE IF r2.status = "throw"
                          THEN Ran(Failed(recoverFromMemoryError(
                                       rec.models, rec.contexts)),
                                   2, Told(rec.ret))
                          ELSE Ran(ValidateLoaded(r2.model, rec), 2, Told(rec.ret))
        ELSE Ran(ValidateLoaded(r1.model, pre), 1, "none")

\* loadModel (1168-1296) up to the registration
LoadOutcome(file, env1, env2, ms, cs) ==
    LET pre == HealthGate(ms, cs)
    IN  IF ~pre.ret THEN Ran(Failed(pre), 0, "none")
        ELSE IF ~file.openable THEN Ran(Failed(pre), 0, "none")
        ELSE IF file.file_size <= 0 THEN Ran(Failed(pre), 0, "none")
        ELSE IF file.file_size > MAX_MODEL_SIZE
        THEN Ran(Failed(pre), 0, "none")
        ELSE LoadWithRetry(file, env1, env2, pre)

\* a counter that is read but never advanced
NextIdAfter_NoIncrement(id, ok) == id

\* "next_id++" (lines 1271 and 1385): the counter after a call
NextIdAfter(id, ok) == IF ok THEN id + 1 ELSE id

\* the handle a call returns (lines 1281 and 1393; 0 on every failure)
ReturnedHandle(id, ok) == IF ok THEN id ELSE 0

LoadModel(file, env1, env2) ==
    /\ ~crashed
    /\ HandleBudgetLeft
    /\ \E o \in {LoadOutcome(file, env1, env2, models, contexts)} :
       LET ok == o.status = "ok"
       IN  /\ models' = IF ok THEN Extend(o.models, next_id, o.model)
                        ELSE o.models
           /\ contexts' = o.contexts
           /\ next_id' = NextIdAfter(next_id, ok)
           /\ call' = [op |-> "loadModel", h |-> 0,
                       ret |-> ReturnedHandle(next_id, ok), returned |-> TRUE,
                       k |-> -1, file |-> file,
                       runs |-> o.runs, recovery |-> o.recovery,
                       first |-> IF o.runs = 0 THEN "none"
                                 ELSE loadRealTensorModel(file, env1).status,
                       second |-> IF o.runs < 2 THEN "none"
                                  ELSE loadRealTensorModel(file, env2).status,
                       built |-> LastRun(file, env1, env2, o.runs)]
           /\ issued' = IF ok THEN Append(issued, next_id) ELSE issued
           /\ UNCHANGED crashed

\* the environment of one createContext call:
\*   "ok"         every allocation succeeds
\*   "bad_alloc"  std::make_unique throws (line 1355)
\*   "init_retry" ggml_init fails once and succeeds after the cleanup (1374)
\*   "init_null"  ggml_init fails twice (line 1376)
CreateEnvs == {"ok", "bad_alloc", "init_retry", "init_null"}

\* createContext without the lookup of lines 1303-1306
ModelFound_Any(ms, model_id) == TRUE

\* lines 1303-1306: the handle is a key of the model registry
ModelFound(ms, model_id) == model_id \in DOMAIN ms

\* createContext (1298-1406) up to the registration
CreateOutcome(model_id, env, ub, ms, cs) ==
    IF ~ModelFound(ms, model_id)
    THEN Failed([models |-> ms, contexts |-> cs])
    ELSE
    LET pre == HealthGate(ms, cs)
    IN  IF ~pre.ret THEN Failed(pre)
        \* line 1331 reads model->n_ctx; the recovery may have deleted model
        ELSE IF model_id \notin DOMAIN pre.models /\ ub = "fault"
        THEN [models |-> pre.models, contexts |-> pre.contexts,
              status |-> "crash"]
        ELSE
        LET over1 == getTotalMemoryUsage(pre.models, pre.contexts)
                       + WORK_BUFFER_SIZE > MAX_TOTAL_MEMORY
            cs1   == IF over1 THEN forceMemoryCleanup(pre.contexts)
                     ELSE pre.contexts
            over2 == getTotalMemoryUsage(pre.models, cs1)
                       + WORK_BUFFER_SIZE > MAX_TOTAL_MEMORY
        IN  IF over1 /\ over2
            THEN Failed([models |-> pre.models, contexts |-> cs1])
            ELSE IF env = "bad_alloc"               \* catch, lines 1395-1399
            THEN Failed(recoverFromMemoryError(pre.models, cs1))
            ELSE IF env = "init_null"
            THEN Failed([models |-> pre.models,
                         contexts |-> forceMemoryCleanup(cs1)])
            ELSE [models |-> pre.models,
                  contexts |-> IF env = "init_retry"
                               THEN forceMemoryCleanup(cs1) ELSE cs1,
                  status |-> "ok"]

CreateContext(model_id, env, ub) ==
    /\ ~crashed
    /\ HandleBudgetLeft
    /\ \E o \in {CreateOutcome(model_id, env, ub, models, contexts)} :
       LET ok == o.status = "ok"
       IN  /\ models' = o.models
           /\ contexts' = IF ok
                          THEN Extend(o.contexts, next_id, NewContext(model_id))
                          ELSE o.contexts
           /\ next_id' = NextIdAfter(next_id, ok)
           /\ crashed' = (o.status = "crash")
           /\ call' = [op |-> "createContext", h |-> model_id,
                       ret |-> ReturnedHandle(next_id, ok),
                       returned |-> o.status # "crash",
                       k |-> -1]
           /\ issued' = IF ok THEN Append(issued, next_id) ELSE issued

\* freeModel without the in-use scan of lines 1573-1587
ModelInUse_NoScan(ms, cs, model_id, alias) == FALSE

\* lines 1573-1587 of freeModel: some context's model pointer equals the
\* pointer of model model_id.  A dangling pointer may compare equal to a
\* model allocated after its target was deleted (the address is reused);
\* alias says whether it does.
ModelInUse(ms, cs, model_id, alias) ==
    \/ \E c \in DOMAIN cs : cs[c].model = model_id
    \/ /\ alias
       /\ \E c \in DOMAIN cs : cs[c].model \notin DOMAIN ms /\ model_id > c

\* freeModel (1566-1616)
FreeModel(model_id, alias) ==
    /\ ~crashed
    /\ models' = IF /\ model_id \in DOMAIN models
                    /\ ~ModelInUse(models, contexts, model_id, alias)
                 THEN Remove(models, model_id)
                 ELSE models
    /\ call' = [op |-> "freeModel", h |-> model_id, ret |-> 0,
                returned |-> TRUE,
                       k |-> -1]
    /\ UNCHANGED <<contexts, next_id, crashed, issued>>

\* freeContext (1524-1564)
FreeContext(context_id) ==
    /\ ~crashed
    /\ contexts' = IF context_id \in DOMAIN contexts
                   THEN Remove(contexts, context_id)
                   ELSE contexts
    /\ call' = [op |-> "freeContext", h |-> context_id, ret |-> 0,
                returned |-> TRUE,
                       k |-> -1]
    /\ UNCHANGED <<models, next_id, crashed, issued>>

\* lines 1447-1465 and 1657-1669: the argument checks
ValidMaxTokens(max_tokens) == ~(max_tokens <= 0 \/ max_tokens > MAX_TOKENS_LIMIT)
ValidInputLen(text) == ~(Len(text) = 0 \/ Len(text) > MAX_INPUT_LEN)

\* startStreaming without the check of lines 1636-1640
AlreadyStreaming_NoCheck(c) == FALSE

\* lines 1636-1640: a session is under way
AlreadyStreaming(c) == c.is_streaming

\* startStreaming (1618-1707): the registries it leaves and its result.
\* A context that is not streaming is evicted by the recovery of line 1645;
\* line 1676 then writes through the dangling ctx.
StartOutcome(context_id, text, max_tokens, ub, ms, cs) ==
    LET same == [models |-> ms, contexts |-> cs]
    IN
    IF context_id \notin DOMAIN cs THEN Failed(same)
    ELSE IF AlreadyStreaming(cs[context_id]) THEN Failed(same)
    ELSE
    LET pre == HealthGate(ms, cs)
    IN  IF ~pre.ret THEN Failed(pre)
        ELSE IF ~ValidMaxTokens(max_tokens) THEN Failed(pre)
        ELSE IF ~ValidInputLen(text) THEN Failed(pre)
        ELSE IF context_id \notin DOMAIN pre.contexts
        THEN [models |-> pre.models, contexts |-> pre.contexts,
              status |-> IF ub = "fault" THEN "crash" ELSE "ok"]
        ELSE IF pre.contexts[context_id].model \notin DOMAIN pre.models
                /\ ub = "fault"
        THEN [models |-> pre.models, contexts |-> pre.contexts,
              status |-> "crash"]
        ELSE [models |-> pre.models,
              contexts |-> [pre.contexts EXCEPT ![context_id] =
                  startStreamingInference(@, text, max_tokens,
                      TokenToIdOf(pre.models, @))],
              status |-> "ok"]

StartStreaming(context_id, text, max_tokens, ub) ==
    /\ ~crashed
    /\ \E o \in {StartOutcome(context_id, text, max_tokens, ub,
                             models, contexts)} :
           /\ models' = o.models
           /\ contexts' = o.contexts
           /\ crashed' = (o.status = "crash")
           /\ call' = [op |-> "startStreaming", h |-> context_id,
                       ret |-> o.status = "ok",
                       returned |-> o.status # "crash",
                       k |-> IF o.status = "ok" THEN 0 ELSE -1,
                       valid |-> ValidMaxTokens(max_tokens)
                                 /\ ValidInputLen(text),
                       found |-> context_id \in DOMAIN contexts,
                       others_kept |->
                           (DOMAIN contexts \ {context_id})
                               \subseteq DOMAIN o.contexts]
           /\ UNCHANGED <<next_id, issued>>

\* the ids line 816-873 can produce for a model of n_vocab entries, among
\* the ids the model draws
Sampled(n_vocab) == {i \in SampleIds : i < n_vocab}

\* the guard of line 797 without its comparison of the counter
StreamGuard_NoCount(c) == ~c.is_streaming

\* line 797: the guard of generateNextStreamingToken
StreamGuard(c) ==
    ~c.is_streaming \/ c.tokens_generated >= c.max_tokens_to_generate

\* generateNextStreamingToken without the early return of lines 797-799
NextTokenOutcome_NoGuard(c, best_token, i2t) ==
    [context |-> AppendToken(c, best_token),
     text |-> TokenText(i2t, best_token)]

\* generateNextStreamingToken (796-897): the context it leaves and the text
\* it returns
NextTokenOutcome(c, best_token, i2t) ==
    IF StreamGuard(c)
    THEN [context |-> c, text |-> <<>>]
    ELSE [context |-> AppendToken(c, best_token),
          text |-> TokenText(i2t, best_token)]

GetNextStreamingToken(context_id, best_token, ub) ==
    /\ ~crashed
    /\ IF context_id \notin DOMAIN contexts
       THEN /\ call' = [op |-> "getNextStreamingToken", h |-> context_id,
                        ret |-> <<>>, returned |-> TRUE,
                       k |-> RunLength(context_id)]
            /\ UNCHANGED <<models, contexts, next_id, crashed, issued>>
       ELSE LET c        == contexts[context_id]
                dangling == c.model \notin DOMAIN models
                \* lines 1720-1729 and 797: the checks before forwardPass
                active   == c.initialized /\ c.is_streaming /\ ~StreamGuard(c)
                o        == IF ~c.initialized \/ ~c.is_streaming
                            THEN [context |-> c, text |-> <<>>]
                            ELSE NextTokenOutcome(c, best_token,
                                                  IdToTokenOf(models, c))
            IN  /\ active /\ ~dangling
                     => best_token \in Sampled(models[c.model].n_vocab)
                \* forwardPass reads the model (lines 464-466)
                /\ IF active /\ dangling /\ ub = "fault"
                   THEN /\ crashed' = TRUE
                        /\ call' = [op |-> "getNextStreamingToken",
                                    h |-> context_id, ret |-> <<>>,
                                    returned |-> FALSE, k |-> -1]
                        /\ UNCHANGED <<contexts>>
                   ELSE /\ contexts' = [contexts EXCEPT ![context_id] =
                                           o.context]
                        /\ call' = [op |-> "getNextStreamingToken",
                                    h |-> context_id, ret |-> o.text,
                                    returned |-> TRUE,
                                    k |-> RunLength(context_id)]
                        /\ UNCHANGED crashed
                /\ UNCHANGED <<models, next_id, issued>>

\* stopStreaming (1785-1825)
StopContext(c) == [c EXCEPT !.is_streaming = FALSE, !.generated_tokens = <<>>]

StopStreaming(context_id) ==
    /\ ~crashed
    /\ contexts' = IF context_id \in DOMAIN contexts
                   THEN [contexts EXCEPT ![context_id] = StopContext(@)]
                   ELSE contexts
    /\ call' = [op |-> "stopStreaming", h |-> context_id, ret |-> 0,
                returned |-> TRUE,
                       k |-> -1]
    /\ UNCHANGED <<models, next_id, crashed, issued>>

\* the loop of generateResponsePhase3Streaming (915-921): draws[i] is the id
\* sampled by the i-th call; resp collects the token texts that are appended
RECURSIVE GenLoop(_, _, _, _, _)
GenLoop(c, draws, i, resp, i2t) ==
    IF isStreamingComplete(c) THEN [context |-> c, response |-> resp]
    ELSE LET o == NextTokenOutcome(c, draws[i], i2t)
         IN  GenLoop(o.context, draws, i + 1,
                     IF o.text # <<>> /\ o.text # UnkText
                     THEN Append(resp, o.text) ELSE resp,
                     i2t)

\* generateResponsePhase3Streaming with use_streaming = true (904-932)
generateResponsePhase3Streaming(c, text, draws, t2i, i2t) ==
    GenLoop(startStreamingInference(c, text, GENERATE_MAX_TOKENS, t2i),
            draws, 1, <<>>, i2t)

\* the ids the sampler would draw during one generateText call, in order:
\* id t throughout and </s> at draw k.  The loop consumes at most
\* GENERATE_MAX_TOKENS of them, so k = GENERATE_MAX_TOKENS + 1 is a call
\* in which </s> is never sampled.
GenStops == {1, GENERATE_MAX_TOKENS + 1}
DrawSeqs(n_vocab) ==
    {[i \in 1..(GENERATE_MAX_TOKENS + 1) |-> IF i = k THEN EOS_ID ELSE t] :
        k \in GenStops, t \in Sampled(n_vocab) \ {EOS_ID}}

GenReturn(kind, tokens) == [kind |-> kind, tokens |-> tokens]

\* generateText (1408-1522): the registries it leaves and what it returns
GenerateOutcome(context_id, text, max_tokens, draws, ub, ms, cs) ==
    LET same == [models |-> ms, contexts |-> cs]
    IN
    IF context_id \notin DOMAIN cs
    THEN Failed(same) @@ [ret |-> GenReturn("empty", <<>>)]
    \* line 1427 reads ctx->model->loaded; cleanup left it false (line 78)
    ELSE IF cs[context_id].model \notin DOMAIN ms
    THEN IF ub = "fault"
         THEN [models |-> ms, contexts |-> cs, status |-> "crash",
               ret |-> GenReturn("empty", <<>>)]
         ELSE Failed(same) @@ [ret |-> GenReturn("empty", <<>>)]
    ELSE
    LET pre == HealthGate(ms, cs)
    IN  IF ~pre.ret
        THEN Failed(pre) @@ [ret |-> GenReturn("error_memory", <<>>)]
        ELSE IF ~ValidMaxTokens(max_tokens)
        THEN Failed(pre) @@ [ret |-> GenReturn("empty", <<>>)]
        ELSE IF Len(text) = 0
        THEN Failed(pre) @@ [ret |-> GenReturn("empty", <<>>)]
        ELSE IF Len(text) > MAX_INPUT_LEN
        THEN Failed(pre) @@ [ret |-> GenReturn("error_too_long", <<>>)]
        \* line 1475 runs on ctx, which the recovery may have deleted
        ELSE IF context_id \notin DOMAIN pre.contexts
        THEN [models |-> pre.models, contexts |-> pre.contexts,
              status |-> IF ub = "fault" THEN "crash" ELSE "ok",
              ret |-> GenReturn("text", <<>>)]
        ELSE
        LET c == pre.contexts[context_id]
            g == generateResponsePhase3Streaming(c, text, draws,
                     TokenToIdOf(pre.models, c), IdToTokenOf(pre.models, c))
        IN  [models |-> pre.models,
             contexts |-> [pre.contexts EXCEPT ![context_id] = g.context],
             status |-> "ok",
             \* lines 1498-1501: an empty response becomes an apology
             ret |-> IF g.response = <<>> THEN GenReturn("apology", <<>>)
                     ELSE GenReturn("text", g.response)]

GenerateText(context_id, text, max_tokens, draws, ub) ==
    /\ ~crashed
    /\ \E o \in {GenerateOutcome(context_id, text, max_tokens, draws, ub,
                                 models, contexts)} :
           /\ models' = o.models
           /\ contexts' = o.contexts
           /\ crashed' = (o.status = "crash")
           /\ call' = [op |-> "generateText", h |-> context_id,
                       ret |-> o.ret, returned |-> o.status # "crash",
                       k |-> -1, max_tokens |-> max_tokens,
                       in_session |->
                           /\ context_id \in DOMAIN contexts
                           /\ ~isStreamingComplete(contexts[context_id]),
                       valid |-> ValidMaxTokens(max_tokens)
                                 /\ ValidInputLen(text),
                       loaded |->
                           /\ context_id \in DOMAIN contexts
                           /\ contexts[context_id].model \in DOMAIN models]
           /\ UNCHANGED <<next_id, issued>>

\* forceCleanup (1854-1864)
ForceCleanup ==
    /\ ~crashed
    /\ contexts' = forceMemoryCleanup(contexts)
    /\ call' = [op |-> "forceCleanup", h |-> 0, ret |-> 0, returned |-> TRUE,
                k |-> -1,
                evicted |-> DOMAIN contexts \ DOMAIN forceMemoryCleanup(contexts)]
    /\ UNCHANGED <<models, next_id, crashed, issued>>

\* recoverFromError (1866-1878)
RecoverFromError ==
    /\ ~crashed
    /\ \E rec \in {recoverFromMemoryError(models, contexts)} :
           /\ models' = rec.models
           /\ contexts' = rec.contexts
           /\ call' = [op |-> "recoverFromError", h |-> 0, ret |-> rec.ret,
                       returned |-> TRUE,
                       k |-> -1,
                       stage |-> IF checkMemoryHealth(models,
                                        forceMemoryCleanup(contexts))
                                 THEN 1 ELSE 2]
    /\ UNCHANGED <<next_id, crashed, issued>>

----------------------------------------------------------------------------
(* The state machine *)

\* the model object a successful load of BigFile registers
BigModel == loadRealTensorModel(BigFile, "ok").model

\* The registries are empty after construction (lines 166-168).  The second
\* initial state is the one reached from it by loadModel(BigFile),
\* createContext(1) and Prefill - 2 more loadModel(BigFile): handles
\* 1..Prefill, a context at handle PrefillContext and models of
\* MAX_TENSOR_SIZE bytes at the others, WORK_BUFFER_SIZE bytes under the
\* ceiling.
Init ==
    /\ \E n \in {0, Prefill} :
          /\ models = [h \in (1..n) \ {PrefillContext} |-> BigModel]
          /\ contexts = [h \in (1..n) \cap {PrefillContext} |->
                            NewContext(1)]
          /\ next_id = n + 1
          /\ issued = [i \in 1..n |-> i]
    /\ crashed = FALSE
    /\ call = [op |-> "init", h |-> 0, ret |-> 0, returned |-> TRUE,
                       k |-> -1]

\* The arguments of the calls.  A handle that was never issued behaves as
\* handle 0 does; where a call returns before it reads an argument, one
\* value of that argument stands for all.
HandleArgs == {0} \cup {h \in AddressedNow(next_id) : h < next_id}

LoadArgs ==
    {<<f, p>> \in Files \X LoadEnvPairs :
        \/ f.openable /\ f.gguf_ok /\ f.file_size <= MAX_MODEL_SIZE
        \/ p = <<"ok", "ok">>}

CreateArgs ==
    {<<m, e>> \in HandleArgs \X CreateEnvs : m \in DOMAIN models \/ e = "ok"}

StartArgs ==
    {<<c, t, n>> \in HandleArgs \X Texts \X MaxTokArgs :
        \/ c \in DOMAIN contexts /\ ~contexts[c].is_streaming
        \/ c \in DOMAIN contexts /\ ValidInputLen(t) /\ ValidMaxTokens(n)
        \/ t = <<>> /\ n = 0}

GenerateArgs ==
    {<<c, t, n>> \in HandleArgs \X Texts \X MaxTokArgs :
        \/ c \in DOMAIN contexts /\ (ValidInputLen(t) \/ ValidMaxTokens(n))
        \/ t = <<>> /\ n = 0}

GenerateDraws(t, n) ==
    IF ValidMaxTokens(n) /\ ValidInputLen(t) THEN DrawSeqs(EOS_ID + 1)
    ELSE {[i \in 1..(GENERATE_MAX_TOKENS + 1) |-> 0]}

NextTokenArgs ==
    {<<c, id>> \in HandleArgs \X SampleIds :
        \/ c \in DOMAIN contexts /\ contexts[c].is_streaming
        \/ id = 0}

Next ==
    \/ \E a \in LoadArgs : LoadModel(a[1], a[2][1], a[2][2])
    \/ \E a \in CreateArgs, ub \in UBChoices : CreateContext(a[1], a[2], ub)
    \/ \E m \in HandleArgs, alias \in AliasChoices : FreeModel(m, alias)
    \/ \E c \in HandleArgs : FreeContext(c)
    \/ \E a \in StartArgs, ub \in UBChoices :
          StartStreaming(a[1], a[2], a[3], ub)
    \/ \E a \in NextTokenArgs, ub \in UBChoices :
          GetNextStreamingToken(a[1], a[2], ub)
    \/ \E c \in HandleArgs : StopStreaming(c)
    \/ \E a \in GenerateArgs, ub \in UBChoices :
          \E d \in GenerateDraws(a[2], a[3]) :
             GenerateText(a[1], a[2], a[3], d, ub)
    \/ ForceCleanup
    \/ RecoverFromError

Spec == Init /\ [][Next]_vars

----------------------------------------------------------------------------
(* The vocabulary and the tokenizer on their own: containers that differ   *)
(* in their vocabulary metadata are loaded one at a time, and the          *)
(* tokenizer is applied to texts under the vocabulary loaded.              *)

\* no tokenizer.ggml.tokens key: the built-in vocabulary, for a declared
\* vocab_size of n
FallbackFile(n) ==
    [SmallFile EXCEPT !.vocab_size = n, !.has_tokens = FALSE, !.tokens = <<>>]

\* an embedded token array, for a declared vocab_size of n
EmbeddedFile(n, tokens) ==
    [SmallFile EXCEPT !.vocab_size = n, !.tokens = tokens]

RepeatTokens == << <<"<","p","a","d",">">>, <<"<","u","n","k",">">>,
                   <<"<","s",">">>, <<"<","/","s",">">>,
                   <<"a">>, <<"a","b">>, <<"a">> >>

\* an array with an empty string and a token longer than MAX_SUBWORD_LEN
OddTokens == << <<"<","p","a","d",">">>, <<"<","u","n","k",">">>,
                <<"<","s",">">>, <<"<","/","s",">">>,
                <<>>, <<"a">>,
                <<"a","b","a","b","a","b","a","b","a","b","a">> >>

VocabFiles ==
    { SmallFile,
      FallbackFile(Len(basic_tokens) - 3),
      FallbackFile(Len(basic_tokens) + 2),
      FallbackFile(0),
      EmbeddedFile(0, TinyTokens),
      EmbeddedFile(Len(TinyTokens) + 2, TinyTokens),
      EmbeddedFile(Len(TinyTokens) - 2, TinyTokens),
      EmbeddedFile(Len(RepeatTokens), RepeatTokens),
      EmbeddedFile(Len(OddTokens), OddTokens) }

\* the texts encoded under every vocabulary, besides the vocabulary's own
\* token strings
EncodeTexts ==
    { <<>>, <<" ">>, <<"I">>, <<"A","b">>, <<"a"," ","a","b",".">>,
      <<"h","e","l","l","o"," "," ","t","h","e">>,
      <<"t","h","e","\t","d","a","y","\n","i","s"," ","g","o","o","d">> }

\* the words handed to tokenizeSubword
SubwordWords ==
    { <<"z">>, <<"a","b","a">>, <<"a","b","z","a">>,
      <<"h","e","l","l","o","w","e">>,
      <<"a","b","a","b","a","b","a","b","a","b","a">> }

\* lines 982-990: the strings of the ids that have one, in order, joined by
\* single spaces
RECURSIVE DecodeFrom(_, _, _, _)
DecodeFrom(ids, i, response, i2t) ==
    IF i > Len(ids) THEN response
    ELSE IF ids[i] \in DOMAIN i2t
    THEN DecodeFrom(ids, i + 1,
                    (IF response # <<>> THEN Append(response, " ")
                     ELSE response) \o i2t[ids[i]],
                    i2t)
    ELSE DecodeFrom(ids, i + 1, response, i2t)

Decode(ids, i2t) == DecodeFrom(ids, 1, <<>>, i2t)

\* forwardPass (462-557) with one logit per vocabulary string
forwardPass_VocabLength(tokens, c, ms) ==
    [logits  |-> [i \in 1..Len(ms[c.model].vocab) |-> 0],
     model   |-> ms[c.model],
     context |-> c]

\* forwardPass (462-557) on a non-empty token sequence, for context c and
\* its model: the logit vector (line 532: n_vocab entries; their float
\* values are not modelled and stand as 0), and the model and the context as
\* the call leaves them (it assigns to neither)
forwardPass(tokens, c, ms) ==
    [logits  |-> [i \in 1..ms[c.model].n_vocab |-> 0],
     model   |-> ms[c.model],
     context |-> c]

\* the token sequences handed to forwardPass
ForwardTokens == { <<BOS_ID>>, <<BOS_ID, UNK_ID, EOS_ID>> }

\* forwardPass(tokens, context) for a context of a registered model, as
\* createContext builds it
Forward(m, tokens) ==
    /\ ~crashed
    /\ m \in DOMAIN models
    /\ \E o \in {forwardPass(tokens, NewContext(m), models)} :
           /\ models' = [models EXCEPT ![m] = o.model]
           /\ call' = [op |-> "forwardPass", h |-> m, text |-> tokens,
                       ret |-> o.logits, context |-> o.context,
                       returned |-> TRUE, k |-> -1]
    /\ UNCHANGED <<contexts, next_id, crashed, issued>>

\* loadModel of a container into the empty model registry
LoadContainer(file) ==
    /\ DOMAIN models = {}
    /\ LoadModel(file, "ok", "ok")

\* tokenizeAdvanced(text, model) for a registered model, and the decoding
\* of what follows the first id
Encode(h, text) ==
    /\ ~crashed
    /\ h \in DOMAIN models
    /\ \E toks \in {tokenizeAdvanced(text, models[h].token_to_id)} :
           call' = [op |-> "tokenizeAdvanced", h |-> h, text |-> text,
                    ret |-> toks, returned |-> TRUE, k |-> -1,
                    decoded |-> Decode(SubSeq(toks, 2, Len(toks)),
                                       models[h].id_to_token)]
    /\ UNCHANGED <<models, contexts, next_id, crashed, issued>>

\* tokenizeSubword(word, model) for a registered model
Subword(h, word) ==
    /\ ~crashed
    /\ h \in DOMAIN models
    /\ call' = [op |-> "tokenizeSubword", h |-> h, text |-> word,
                ret |-> tokenizeSubword(word, models[h].token_to_id),
                returned |-> TRUE, k |-> -1]
    /\ UNCHANGED <<models, contexts, next_id, crashed, issued>>

VocabInit == Init /\ next_id = 1

VocabNext ==
    \/ \E f \in VocabFiles : LoadContainer(f)
    \/ \E m \in DOMAIN models : FreeModel(m, FALSE)
    \/ \E m \in DOMAIN models :
          \E t \in EncodeTexts \cup Range(models[m].vocab) : Encode(m, t)
    \/ \E m \in DOMAIN models, w \in SubwordWords : Subword(m, w)
    \/ \E m \in DOMAIN models, t \in ForwardTokens : Forward(m, t)

VocabSpec == VocabInit /\ [][VocabNext]_vars

----------------------------------------------------------------------------
(* Streaming sessions on their own: one small model, contexts of it, and   *)
(* sessions of few and of many tokens                                      *)

StreamTexts == { <<"A", "b", " ", "z", ".">> }

\* the max_tokens arguments: the short budget, and one within
\* MAX_TOKENS_LIMIT that lets the running context grow past KEEP_THRESHOLD
StreamMaxTokens == { MaxTokArg, KEEP_THRESHOLD }

\* the empty registries; one model is loaded and one context at a time is
\* created, started, advanced, stopped, cleaned up and freed
StreamInit == Init /\ next_id = 1

StreamNext ==
    \/ LoadContainer(SmallFile)
    \/ \E m \in DOMAIN models :
          DOMAIN contexts = {} /\ CreateContext(m, "ok", "stale")
    \/ \E c \in DOMAIN contexts, t \in StreamTexts, n \in StreamMaxTokens :
          StartStreaming(c, t, n, "stale")
    \/ \E c \in DOMAIN contexts, id \in SampleIds :
          GetNextStreamingToken(c, id, "stale")
    \/ \E c \in DOMAIN contexts : StopStreaming(c)
    \/ \E c \in DOMAIN contexts : FreeContext(c)
    \/ ForceCleanup

StreamSpec == StreamInit /\ [][StreamNext]_vars

----------------------------------------------------------------------------
(* The sampler of generateNextStreamingToken (816-873) on its own.  A      *)
(* logit vector is a function on the ids 0..n-1; logits are whole numbers  *)
(* in units of temperature * ln 2, so that exp(logits[i] / temperature -   *)
(* max_logit) is 2^(logits[i] - max).  A probability is kept as its        *)
(* numerator 2^(logits[i] - min) over the sum of the numerators, the same  *)
(* ratio; float rounding is not modelled.                                  *)

RECURSIVE Pow2(_)
Pow2(k) == IF k = 0 THEN 1 ELSE 2 * Pow2(k - 1)

Ids(logits) == DOMAIN logits

MinLogit(logits) ==
    LET vals == {logits[i] : i \in DOMAIN logits}
    IN  CHOOSE m \in vals : \A x \in vals : m <= x

\* lines 826-840: softmax, as numerators over SumProbs
Probs(logits) == [i \in Ids(logits) |-> Pow2(logits[i] - MinLogit(logits))]

RECURSIVE SumUpTo(_, _)
SumUpTo(probs, n) == IF n < 0 THEN 0 ELSE probs[n] + SumUpTo(probs, n - 1)

SumProbs(probs) == SumUpTo(probs, Cardinality(DOMAIN probs) - 1)

\* std::greater on std::pair<float, int> (line 850)
PairGreater(probs, a, b) ==
    probs[a] > probs[b] \/ (probs[a] = probs[b] /\ a > b)

\* lines 843-850: top_tokens after the sort, as the ids in order (1-based)
SortedIds(probs) ==
    LET ids  == DOMAIN probs
        rank == [i \in ids |->
                    Cardinality({j \in ids : PairGreater(probs, j, i)})]
    IN  [k \in 1..Cardinality(ids) |-> CHOOSE i \in ids : rank[i] = k - 1]

\* lines 853-862: the roulette over the first top_k entries from position
\* i on; r / DrawSteps is random_val.  best_token keeps its initial value 0
\* (line 817) when the loop ends without a selection.
RECURSIVE Roulette(_, _, _, _, _, _, _)
Roulette(sorted, probs, total, top_k, r, i, cumulative) ==
    IF ~(i <= top_k /\ i <= Len(sorted)) THEN 0
    ELSE LET c == cumulative + probs[sorted[i]]
         IN  IF r * total <= c * DrawSteps THEN sorted[i]
             ELSE Roulette(sorted, probs, total, top_k, r, i + 1, c)

\* lines 816-873: best_token for a logit vector, the draw r / DrawSteps and,
\* for an empty vector, the model's n_vocab and the raw value of rand().
\* rand() % 0 (line 871, n_vocab = 0) is undefined: the process is killed
\* ("fault") or the remainder is the dividend, as a division that returns 0
\* leaves it.
SampleToken(logits, n_vocab, r, raw, ub) ==
    IF Cardinality(DOMAIN logits) > 0
    THEN LET probs == Probs(logits)
             top_k == Min(TOP_K, Cardinality(DOMAIN probs))
         IN  [status |-> "ok",
              best_token |-> Roulette(SortedIds(probs), probs,
                                      SumProbs(probs), top_k, r, 1, 0)]
    ELSE LET vocab_limit == Min(FALLBACK_LIMIT, n_vocab)
         IN  IF vocab_limit = 0
             THEN IF ub = "fault"
                  THEN [status |-> "crash", best_token |-> 0]
                  ELSE [status |-> "ok", best_token |-> raw]
             ELSE [status |-> "ok", best_token |-> raw % vocab_limit]

\* the vocabulary sizes of the logit vectors: none, one, two, and TOP_K
\* with its neighbours
SampleSizes == {0, 1, 2, TOP_K - 1, TOP_K, TOP_K + 1, TOP_K + 2}

\* the logit vectors of n entries that are drawn
LogitVectors(n) ==
    { [i \in 0..(n - 1) |-> 0],                          \* all equal
      [i \in 0..(n - 1) |-> IF i = 0 THEN 0 ELSE 1],     \* id 0 the least
      [i \in 0..(n - 1) |-> IF i = 0 THEN 2 ELSE 0],     \* id 0 the most
      [i \in 0..(n - 1) |-> i % 3] }

\* the values of rand() in the fallback branch
RawDraws == {0, 7}

\* forwardPass has returned the logits (line 803)
SampleInit ==
    /\ models = [h \in {} |-> 0]
    /\ contexts = [h \in {} |-> 0]
    /\ next_id = 1
    /\ issued = <<>>
    /\ crashed = FALSE
    /\ \E n \in SampleSizes : \E l \in LogitVectors(n) :
          call = [op |-> "forwardPass", h |-> 0, ret |-> l,
                  returned |-> TRUE, k |-> -1]

\* lines 816-873 on the logits forwardPass returned
Sample(r, raw, ub) ==
    /\ ~crashed
    /\ call.op = "forwardPass"
    /\ \E o \in {SampleToken(call.ret, Cardinality(DOMAIN call.ret),
                             r, raw, ub)} :
          /\ crashed' = (o.status = "crash")
          /\ call' = [op |-> "sample", h |-> 0, ret |-> o.best_token,
                      returned |-> o.status = "ok", k |-> -1,
                      logits |-> call.ret, draw |-> r]
    /\ UNCHANGED <<models, contexts, next_id, issued>>

SampleNext ==
    \E r \in 0..DrawSteps, raw \in RawDraws, ub \in UBOutcomes :
        /\ call.op = "forwardPass"
        /\ Cardinality(DOMAIN call.ret) > 0 => raw = 0 /\ ub = "stale"
        /\ Sample(r, raw, ub)

SampleSpec == SampleInit /\ [][SampleNext]_vars

----------------------------------------------------------------------------
(* The tensor section of the loader on its own: containers that differ in  *)
(* their tensor directory, loaded into the empty registry under each       *)
(* answer of the ggml pool                                                 *)

TensorFile(dir) == [SmallFile EXCEPT !.tensors = dir]

\* byte sizes around the caps of lines 230-238
TensorSizes == {0, 7, 1023, 1024, 1025, 8192}

Entry(name, type, size) == [name |-> name, type |-> type, size |-> size]

\* directories of one essential tensor of every type and size; directories
\* with no essential tensor; one with more essential tensors than the loop
\* loads, one name twice
TensorDirs ==
    { <<Entry("token_embd.weight", t, b)>> :
          t \in TensorTypes, b \in TensorSizes }
    \cup { <<>>,
           <<Entry("blk.0.attn_q.weight", "F16", 4096)>>,
           <<Entry("output.weight", "F32", 8192),
             Entry("blk.0.attn_q.weight", "Q6_K", 4096),
             Entry("token_embd.weight", "Q4_K", 1025),
             Entry("output.weight", "Q8_0", 7),
             Entry("token_embd.weight", "F16", 8192)>> }

TensorFiles == {TensorFile(d) : d \in TensorDirs}

PoolEnvs == {"ok", "pool_null", "first_null", "one_left"}

TensorInit == Init /\ next_id = 1

TensorNext ==
    \/ \E f \in TensorFiles, e \in PoolEnvs :
          DOMAIN models = {} /\ LoadModel(f, e, "ok")
    \/ \E m \in DOMAIN models : FreeModel(m, FALSE)

TensorSpec == TensorInit /\ [][TensorNext]_vars

----------------------------------------------------------------------------
(* Properties *)

\* C1: freeModel on a model handle that a live context still references is
\* rejected: the model stays in the model registry, every context that
\* references it stays in the context registry unchanged, and the total
\* getMemoryUsage reports is the same after the call as before it.
C1_FreeModelInUseRejected ==
    [][ ( /\ call'.op = "freeModel"
          /\ call'.h \in DOMAIN models
          /\ \E c \in DOMAIN contexts : contexts[c].model = call'.h )
        => /\ models' = models
           /\ \A c \in DOMAIN contexts :
                 contexts[c].model = call'.h
                    => c \in DOMAIN contexts' /\ contexts'[c] = contexts[c]
           /\ getTotalMemoryUsage(models', contexts')
                 = getTotalMemoryUsage(models, contexts) ]_vars

\* a freeModel call has returned on a model that is registered and that a
\* registered context references
C1_Witness ==
    /\ call.op = "freeModel"
    /\ call.h \in DOMAIN models
    /\ \E c \in DOMAIN contexts : contexts[c].model = call.h

\* C2: in every reachable state, every context in the context registry
\* references a model that is in the model registry.
C2_ContextsReferenceLiveModels ==
    \A c \in DOMAIN contexts : contexts[c].model \in DOMAIN models

\* createContext has returned the handle of a context whose model the
\* recovery inside that call deleted
C2_DanglingContext ==
    /\ call.op = "createContext"
    /\ call.ret # 0
    /\ call.ret \in DOMAIN contexts
    /\ contexts[call.ret].model = call.h
    /\ call.h \notin DOMAIN models

\* C3: startStreaming on a context that is Streaming (its flag is set and it
\* has not completed) returns false and leaves the context's input tokens,
\* running context sequence, generated-token list, max_tokens and generated
\* counter as they were.
C3_StartWhileStreamingRejected ==
    [][ ( /\ call'.op = "startStreaming"
          /\ call'.h \in DOMAIN contexts
          /\ contexts[call'.h].is_streaming
          /\ ~isStreamingComplete(contexts[call'.h]) )
        => /\ call'.returned
           /\ call'.ret = FALSE
           /\ call'.h \in DOMAIN contexts'
           /\ LET old == contexts[call'.h]
                  new == contexts'[call'.h]
              IN  /\ new.input_tokens = old.input_tokens
                  /\ new.full_context_tokens = old.full_context_tokens
                  /\ new.generated_tokens = old.generated_tokens
                  /\ new.max_tokens_to_generate = old.max_tokens_to_generate
                  /\ new.tokens_generated = old.tokens_generated ]_vars

\* a startStreaming call with valid arguments has returned false on a
\* context in the middle of a session that has already emitted a token
C3_Witness ==
    /\ call.op = "startStreaming"
    /\ call.valid
    /\ call.ret = FALSE
    /\ call.h \in DOMAIN contexts
    /\ contexts[call.h].is_streaming
    /\ ~isStreamingComplete(contexts[call.h])
    /\ contexts[call.h].tokens_generated > 0

\* C4: in every reachable state, every context has emitted at most as many
\* tokens as its session allows: tokens_generated <= max_tokens_to_generate.
C4_GeneratedWithinMax ==
    \A c \in DOMAIN contexts :
        contexts[c].tokens_generated <= contexts[c].max_tokens_to_generate

\* getNextStreamingToken was called on a session that had used up its
\* budget and emitted nothing
C4_Witness ==
    /\ call.op = "getNextStreamingToken"
    /\ call.ret = <<>>
    /\ call.h \in DOMAIN contexts
    /\ contexts[call.h].is_streaming
    /\ contexts[call.h].max_tokens_to_generate > 0
    /\ contexts[call.h].tokens_generated
          = contexts[call.h].max_tokens_to_generate

\* C5: after a successful startStreaming(text, max_tokens), max_tokens
\* calls of getNextStreamingToken on that context in a row are enough for
\* isStreamingComplete to return true, whatever ids are sampled.  (Every
\* successful startStreaming of the model passes max_tokens = MaxTokArg, and
\* call.k counts the calls of the run up to that number.)
C5_CompleteWithinMaxCalls ==
    (call.op = "getNextStreamingToken" /\ call.k >= MaxTokArg)
        => IsStreamingCompleteJNI(contexts, call.h)

\* a run of max_tokens calls in which </s> was never sampled: the session
\* is complete by exhaustion
C5_Witness ==
    /\ call.op = "getNextStreamingToken"
    /\ call.k = MaxTokArg
    /\ call.h \in DOMAIN contexts
    /\ contexts[call.h].is_streaming
    /\ contexts[call.h].generated_tokens = [i \in 1..MaxTokArg |-> 0]

\* C6: getNextStreamingToken on a context that is not Streaming, or whose
\* generated count has reached max_tokens, returns the empty string and
\* changes nothing: the context (running sequence, generated list, counter,
\* flag) and both registries are the same after the call as before it.
C6_NextTokenNoOp ==
    [][ ( /\ call'.op = "getNextStreamingToken"
          /\ call'.h \in DOMAIN contexts
          /\ \/ ~contexts[call'.h].is_streaming
             \/ contexts[call'.h].tokens_generated
                   >= contexts[call'.h].max_tokens_to_generate )
        => /\ call'.returned
           /\ call'.ret = <<>>
           /\ contexts' = contexts
           /\ models' = models ]_vars

\* getNextStreamingToken has returned the empty string on a context whose
\* session was ended before its budget was used up
C6_Witness ==
    /\ call.op = "getNextStreamingToken"
    /\ call.ret = <<>>
    /\ call.h \in DOMAIN contexts
    /\ ~contexts[call.h].is_streaming
    /\ contexts[call.h].tokens_generated > 0
    /\ contexts[call.h].tokens_generated
          < contexts[call.h].max_tokens_to_generate

\* C7: stopStreaming on an existing context leaves its streaming flag false
\* and its generated-token list empty, with isStreamingComplete true; a
\* getNextStreamingToken that follows returns the empty string, and a
\* startStreaming with valid arguments that follows is accepted: it returns
\* true and the context is Streaming.
C7_StopStreamingResets ==
    [][ /\ (call'.op = "stopStreaming" /\ call'.h \in DOMAIN contexts)
            => /\ call'.h \in DOMAIN contexts'
               /\ ~contexts'[call'.h].is_streaming
               /\ contexts'[call'.h].generated_tokens = <<>>
               /\ IsStreamingCompleteJNI(contexts', call'.h)
        /\ ( /\ call.op = "stopStreaming"
             /\ call.h \in DOMAIN contexts
             /\ call'.op = "getNextStreamingToken"
             /\ call'.h = call.h
             /\ call'.returned )
            => call'.ret = <<>>
        /\ ( /\ call.op = "stopStreaming"
             /\ call.h \in DOMAIN contexts
             /\ call'.op = "startStreaming"
             /\ call'.h = call.h
             /\ call'.valid
             /\ call'.returned )
            => /\ call'.ret = TRUE
               /\ call'.h \in DOMAIN contexts'
               /\ contexts'[call'.h].is_streaming ]_vars

\* startStreaming has returned true for a context that is no longer in the
\* context registry
C7_StartedEvictedContext ==
    /\ call.op = "startStreaming"
    /\ call.ret = TRUE
    /\ call.h \notin DOMAIN contexts

\* C8: loadModel on a file that opens but does not carry the
\* container signature returns 0 and leaves the model registry with the
\* same models, from every reachable state.
C8_BadSignatureKeepsModels ==
    [][ ( /\ call'.op = "loadModel"
          /\ call'.file.openable
          /\ ~call'.file.gguf_ok )
        => /\ call'.ret = 0
           /\ models' = models ]_vars

\* C9: a loadModel that fails because the file cannot be opened, has a bad
\* size or does not carry the signature, and a createContext that fails
\* because the model handle is unknown, return 0 and leave both registries
\* exactly as they were.
C9_FailedCallKeepsRegistries ==
    [][ ( \/ /\ call'.op = "loadModel"
             /\ \/ ~call'.file.openable
                \/ call'.file.file_size <= 0
                \/ call'.file.file_size > MAX_MODEL_SIZE
                \/ ~call'.file.gguf_ok
          \/ /\ call'.op = "createContext"
             /\ call'.h \notin DOMAIN models )
        => /\ call'.ret = 0
           /\ models' = models
           /\ contexts' = contexts ]_vars

\* C10: every handle returned is non-zero and greater than every handle
\* returned before it; no integer is both a model handle and a context
\* handle; every registered handle is one that was returned; a loadModel
\* or createContext that returns 0 leaves the counter where it was, and a
\* successful one returns a handle above all earlier ones.
C10_HandlesMonotonic ==
    /\ [](/\ \A i, j \in DOMAIN issued : i < j => issued[i] < issued[j]
          /\ \A i \in DOMAIN issued : issued[i] > 0 /\ issued[i] < next_id
          /\ DOMAIN models \cap DOMAIN contexts = {}
          /\ (DOMAIN models \cup DOMAIN contexts) \subseteq Range(issued))
    /\ [][ (call'.op \in {"loadModel", "createContext"} /\ call'.returned)
           => IF call'.ret = 0
              THEN next_id' = next_id /\ issued' = issued
              ELSE /\ issued' = Append(issued, call'.ret)
                   /\ \A i \in DOMAIN issued : issued[i] < call'.ret
                   /\ next_id' > call'.ret ]_vars

\* a handle has been returned after an earlier handle's object was freed or
\* evicted
C10_Witness ==
    /\ call.op \in {"loadModel", "createContext"}
    /\ call.ret # 0
    /\ \E i \in DOMAIN issued :
          /\ issued[i] < call.ret
          /\ issued[i] \notin (DOMAIN models \cup DOMAIN contexts)

\* C11: createContext with a handle that is not in the model registry
\* (never issued, freed, evicted earlier, or the handle of a context)
\* returns 0 and adds no context: the context registry is as it was.
C11_CreateNeedsLoadedModel ==
    [][ (call'.op = "createContext" /\ call'.h \notin DOMAIN models)
        => /\ call'.returned
           /\ call'.ret = 0
           /\ contexts' = contexts
           /\ models' = models ]_vars

\* createContext has returned 0 for a handle that was issued and is the
\* handle of a registered context, not of a model
C11_Witness ==
    /\ call.op = "createContext"
    /\ call.ret = 0
    /\ call.h \in DOMAIN contexts
    /\ call.h \notin DOMAIN models

\* C12: after every successful loadModel and every successful createContext
\* the total bytes attributed to the live models and contexts
\* (getMemoryUsage) is at most the ceiling of 512 MiB.
C12_WithinCeilingAfterSuccess ==
    (call.op \in {"loadModel", "createContext"} /\ call.ret # 0)
        => getTotalMemoryUsage(models, contexts) <= MAX_MEMORY_LIMIT

\* loadModel has returned a handle and isMemoryHealthy is false
C12_OverCeilingAfterLoad ==
    /\ call.op = "loadModel"
    /\ call.ret # 0
    /\ call.ret \in DOMAIN models
    /\ ~checkMemoryHealth(models, contexts)

\* C13: getMemoryUsage is strictly greater right after a successful
\* loadModel than right before it, and strictly smaller right after a
\* successful freeModel than right before it, from every prior state.
C13_MemoryUsageMonotonic ==
    [][ /\ (call'.op = "loadModel" /\ call'.ret # 0)
            => getTotalMemoryUsage(models', contexts')
                  > getTotalMemoryUsage(models, contexts)
        /\ ( /\ call'.op = "freeModel"
             /\ call'.h \in DOMAIN models
             /\ call'.h \notin DOMAIN models' )
            => getTotalMemoryUsage(models', contexts')
                  < getTotalMemoryUsage(models, contexts) ]_vars

\* C13 as the code has it: getMemoryUsage is strictly greater right after a
\* successful loadModel than right before it whenever the call evicted
\* nothing (every model and context of the prior state is still registered
\* and unchanged), and strictly smaller right after a successful freeModel.
C13_MemoryUsageMonotonicUnlessEvicted ==
    [][ /\ ( /\ call'.op = "loadModel"
             /\ call'.ret # 0
             /\ contexts' = contexts
             /\ DOMAIN models \subseteq DOMAIN models' )
            => getTotalMemoryUsage(models', contexts')
                  > getTotalMemoryUsage(models, contexts)
        /\ ( /\ call'.op = "freeModel"
             /\ call'.h \in DOMAIN models
             /\ call'.h \notin DOMAIN models' )
            => getTotalMemoryUsage(models', contexts')
                  < getTotalMemoryUsage(models, contexts) ]_vars

\* a successful loadModel has added a model to a registry that still holds
\* an earlier model and a context
C13_Witness ==
    /\ call.op = "loadModel"
    /\ call.ret # 0
    /\ call.ret \in DOMAIN models
    /\ \E m \in DOMAIN models : m < call.ret
    /\ DOMAIN contexts # {}

\* C14: if the total attributed memory is over the ceiling and there is an
\* idle context or a model other than the most recent one, then
\* isMemoryHealthy is true after forceCleanup returns.
C14_ForceCleanupRestoresHealth ==
    [][ ( /\ call'.op = "forceCleanup"
          /\ ~checkMemoryHealth(models, contexts)
          /\ \/ \E c \in DOMAIN contexts : ~contexts[c].is_streaming
             \/ \E m \in DOMAIN models : m # MostRecentModel(models) )
        => checkMemoryHealth(models', contexts') ]_vars

\* forceCleanup has returned, models other than the most recent one are
\* registered and isMemoryHealthy is false
C14_StillOverCeiling ==
    /\ call.op = "forceCleanup"
    /\ ~checkMemoryHealth(models, contexts)
    /\ \E m \in DOMAIN models : m # MostRecentModel(models)

C16_GenerateWithinMaxTokens ==
    ( /\ call.op = "generateText"
      /\ call.returned
      /\ call.ret.kind \in {"text", "apology"}
      /\ call.h \in DOMAIN contexts )
    => /\ Len(call.ret.tokens) <= call.max_tokens
       /\ contexts[call.h].tokens_generated <= call.max_tokens

\* generate has returned a text of more decoded tokens than the maxTokens it
\* was given
C16_MoreThanMaxTokens ==
    /\ call.op = "generateText"
    /\ call.returned
    /\ call.ret.kind = "text"
    /\ call.h \in DOMAIN contexts
    /\ Len(call.ret.tokens) > call.max_tokens
    /\ contexts[call.h].tokens_generated = GENERATE_MAX_TOKENS

\* C17: neither startStreaming nor generate begins a new session on a
\* context that is Streaming: the running context sequence, the
\* generated-token list, the counter and max_tokens of a session in progress
\* are not reset by them.
C17_NoNewSessionWhileStreaming ==
    [][ ( /\ call'.op \in {"startStreaming", "generateText"}
          /\ call'.h \in DOMAIN contexts
          /\ ~isStreamingComplete(contexts[call'.h])
          /\ call'.h \in DOMAIN contexts' )
        => LET old == contexts[call'.h]
               new == contexts'[call'.h]
           IN  /\ new.full_context_tokens = old.full_context_tokens
               /\ new.generated_tokens = old.generated_tokens
               /\ new.tokens_generated = old.tokens_generated
               /\ new.max_tokens_to_generate = old.max_tokens_to_generate
      ]_vars

\* generate has returned a text on a context that had a session in progress
\* and now carries the session generate started
C17_SessionOverwritten ==
    /\ call.op = "generateText"
    /\ call.returned
    /\ call.in_session
    /\ call.h \in DOMAIN contexts
    /\ contexts[call.h].max_tokens_to_generate = GENERATE_MAX_TOKENS

\* C18: startStreaming with max_tokens <= 0 or > 2048, or with an empty text
\* or one longer than 8192 bytes, returns false, does not make the context
\* Streaming, and leaves its generation state and both registries unchanged.
C18_InvalidStartChangesNothing ==
    [][ ( /\ call'.op = "startStreaming"
          /\ call'.returned
          /\ ~call'.valid )
        => /\ call'.ret = FALSE
           /\ models' = models
           /\ contexts' = contexts
           /\ \A h \in DOMAIN contexts \cap DOMAIN contexts' :
                  contexts'[h].is_streaming => contexts[h].is_streaming
      ]_vars

\* startStreaming was given invalid arguments for a registered context,
\* returned false, and the context is no longer registered
C18_InvalidStartEvicted ==
    /\ call.op = "startStreaming"
    /\ call.returned
    /\ ~call.valid
    /\ call.found
    /\ call.ret = FALSE
    /\ call.h \notin DOMAIN contexts

\* C19: generate returns the empty string on every failure: unknown or freed
\* context handle, context whose model is not loaded, max_tokens outside
\* (0, 2048], empty input text, input text longer than 8192 bytes, failed
\* memory recovery.
C19_GenerateFailureReturnsEmpty ==
    ( /\ call.op = "generateText"
      /\ call.returned
      /\ \/ ~call.loaded
         \/ ~call.valid
         \/ call.ret.kind = "error_memory" )
    => call.ret.kind = "empty"

\* generate was given a text longer than 8192 bytes for a context with a
\* loaded model and returned a non-empty error text
C19_ErrorTextReturned ==
    /\ call.op = "generateText"
    /\ call.returned
    /\ call.loaded
    /\ ~call.valid
    /\ call.ret.kind = "error_too_long"

\* C20: generate, startStreaming, nextStreamingToken, stopStreaming and
\* freeContext addressed to one context leave every other context in the
\* registry, with its streaming flag, running context sequence,
\* generated-token list and counter unchanged.
C20_ContextsIndependent ==
    [][ ( /\ call'.op \in {"generateText", "startStreaming",
                           "getNextStreamingToken", "stopStreaming",
                           "freeContext"}
          /\ call'.returned )
        => \A h \in DOMAIN contexts \ {call'.h} :
               /\ h \in DOMAIN contexts'
               /\ contexts'[h].is_streaming = contexts[h].is_streaming
               /\ contexts'[h].full_context_tokens
                      = contexts[h].full_context_tokens
               /\ contexts'[h].generated_tokens = contexts[h].generated_tokens
               /\ contexts'[h].tokens_generated = contexts[h].tokens_generated
      ]_vars

\* startStreaming on a registered context has returned and a context other
\* than the addressed one left the registry during the call
C20_OtherContextEvicted ==
    /\ call.op = "startStreaming"
    /\ call.returned
    /\ call.found
    /\ ~call.others_kept

\* C21: a load that fails for lack of memory triggers recovery and is
\* retried exactly once: within one loadModel call the loader runs at most
\* twice, the second run happens only after recovery reported success, and
\* if the second run also fails (or recovery fails) the call returns 0 with
\* no model registered.
C21_OomLoadRetriedOnce ==
    [][ call'.op = "loadModel" =>
        /\ call'.runs <= 2
        /\ call'.runs = 2 => call'.recovery = "true"
        /\ ( /\ call'.file.gguf_ok
             /\ call'.first \in {"false", "throw"} )
           => /\ call'.recovery # "none"
              /\ call'.recovery = "true" => call'.runs = 2
        /\ ( \/ call'.second \in {"false", "throw"}
             \/ call'.recovery = "false" )
           => /\ call'.ret = 0
              /\ DOMAIN models' \subseteq DOMAIN models ]_vars

\* loadModel has returned 0 after one loader run that ended in
\* std::bad_alloc on a well-formed container, although the recovery that
\* followed reported success
C21_OomNotRetried ==
    /\ call.op = "loadModel"
    /\ call.file.gguf_ok
    /\ call.first = "throw"
    /\ call.recovery = "true"
    /\ call.runs = 1
    /\ call.ret = 0

\* C30: when nextStreamingToken samples the end-of-sequence id (3) the
\* session ends at once: the id is still appended and counted, the streaming
\* flag becomes false and isStreamingComplete returns true, also with
\* tokens_generated below max_tokens; a nextStreamingToken call on a context
\* that is not streaming returns the empty string and changes no state.
C30_EndTokenEndsSession ==
    [][ \A h \in DOMAIN contexts \cap DOMAIN contexts' :
          (call'.op = "getNextStreamingToken" /\ call'.h = h
              /\ call'.returned)
          => /\ ( /\ contexts'[h].tokens_generated
                        = contexts[h].tokens_generated + 1
                  /\ contexts'[h].generated_tokens
                        = Append(contexts[h].generated_tokens, EOS_ID) )
                => /\ contexts'[h].full_context_tokens
                          = Append(contexts[h].full_context_tokens, EOS_ID)
                   /\ ~contexts'[h].is_streaming
                   /\ IsStreamingCompleteJNI(contexts', h)
             /\ ~contexts[h].is_streaming
                => /\ call'.ret = <<>>
                   /\ contexts' = contexts
                   /\ models' = models ]_vars

\* a nextStreamingToken call was made after the one that sampled </s> as
\* the first token of a session with a larger budget: it returned the empty
\* string and the session is still ended with one token counted
C30_Witness ==
    /\ call.op = "getNextStreamingToken"
    /\ call.returned
    /\ call.k = 2
    /\ call.ret = <<>>
    /\ call.h \in DOMAIN contexts
    /\ ~contexts[call.h].is_streaming
    /\ contexts[call.h].generated_tokens = <<EOS_ID>>
    /\ contexts[call.h].tokens_generated = 1
    /\ contexts[call.h].tokens_generated
           < contexts[call.h].max_tokens_to_generate
    /\ IsStreamingCompleteJNI(contexts, call.h)

\* C32: forceCleanup removes from the context registry exactly the contexts
\* that are not Streaming (streaming flag clear) at the time of the call;
\* every Streaming context stays registered with its streaming flag, counter
\* and max_tokens unchanged, and the model registry is unchanged.
C32_ForceCleanupEvictsIdleOnly ==
    [][ call'.op = "forceCleanup"
        => /\ DOMAIN contexts'
                 = {h \in DOMAIN contexts : contexts[h].is_streaming}
           /\ \A h \in DOMAIN contexts' :
                 /\ contexts'[h].is_streaming
                 /\ contexts'[h].tokens_generated
                        = contexts[h].tokens_generated
                 /\ contexts'[h].max_tokens_to_generate
                        = contexts[h].max_tokens_to_generate
           /\ models' = models ]_vars

\* forceCleanup ran with an idle and a streaming context registered: the
\* idle one was evicted and the streaming one is still registered
C32_Witness ==
    /\ call.op = "forceCleanup"
    /\ call.evicted # {}
    /\ call.evicted \cap DOMAIN contexts = {}
    /\ \E h \in DOMAIN contexts : contexts[h].is_streaming

\* C35: once a streaming session has completed by max_tokens exhaustion
\* (isStreamingComplete returns true), a new startStreaming with valid
\* arguments on the same context is accepted without an intervening
\* stopStreaming, as after completion by end-of-sequence.
C35_RestartAfterExhaustion ==
    [][ ( /\ call'.op = "startStreaming"
          /\ call'.valid
          /\ call'.h \in DOMAIN contexts
          /\ contexts[call'.h].model \in DOMAIN models
          /\ checkMemoryHealth(models, contexts)
          /\ contexts[call'.h].max_tokens_to_generate > 0
          /\ contexts[call'.h].tokens_generated
                 >= contexts[call'.h].max_tokens_to_generate
          /\ IsStreamingCompleteJNI(contexts, call'.h) )
        => /\ call'.returned
           /\ call'.ret = TRUE
           /\ call'.h \in DOMAIN contexts'
           /\ contexts'[call'.h].is_streaming
           /\ contexts'[call'.h].tokens_generated = 0 ]_vars

\* startStreaming with valid arguments returned false on a context whose
\* session had emitted all of its max_tokens tokens, none of them </s>,
\* with memory within the ceiling
C35_RestartRejected ==
    /\ call.op = "startStreaming"
    /\ call.valid
    /\ call.returned
    /\ call.ret = FALSE
    /\ call.h \in DOMAIN contexts
    /\ contexts[call.h].model \in DOMAIN models
    /\ checkMemoryHealth(models, contexts)
    /\ contexts[call.h].is_streaming
    /\ contexts[call.h].max_tokens_to_generate > 0
    /\ contexts[call.h].tokens_generated
           = contexts[call.h].max_tokens_to_generate
    /\ IsStreamingCompleteJNI(contexts, call.h)

\* C36: when generate returns, the context it ran on is not Streaming (the
\* streaming flag is false), whether generation ended by end-of-sequence or
\* by reaching the token limit.
C36_IdleAfterGenerate ==
    [][ ( /\ call'.op = "generateText"
          /\ call'.returned
          /\ call'.ret.kind \in {"text", "apology"}
          /\ call'.h \in DOMAIN contexts' )
        => ~contexts'[call'.h].is_streaming ]_vars

\* generate returned text after GENERATE_MAX_TOKENS tokens, none of them
\* </s>, and the context's streaming flag is still set
C36_StreamingAfterGenerate ==
    /\ call.op = "generateText"
    /\ call.returned
    /\ call.ret.kind = "text"
    /\ call.h \in DOMAIN contexts
    /\ contexts[call.h].is_streaming
    /\ contexts[call.h].tokens_generated = GENERATE_MAX_TOKENS
    /\ EOS_ID \notin Range(contexts[call.h].generated_tokens)

\* C37: generate and startStreaming never operate on a context that the
\* memory recovery they triggered has evicted: whenever startStreaming
\* returns true or generate proceeds to generation, the context handle
\* passed in is still present in the context registry after the call.
C37_NoUseAfterEviction ==
    [][ ( /\ call'.op \in {"startStreaming", "generateText"}
          /\ call'.returned
          /\ call'.h \in DOMAIN contexts
          /\ \/ call'.op = "startStreaming" /\ call'.ret = TRUE
             \/ call'.op = "generateText"
                /\ call'.ret.kind \in {"text", "apology"} )
        => call'.h \in DOMAIN contexts' ]_vars

\* generate ran its generation for a context that was registered, with a
\* live model, before the call and is gone after it
C37_GeneratedOnEvictedContext ==
    /\ call.op = "generateText"
    /\ call.returned
    /\ call.loaded
    /\ call.valid
    /\ call.ret.kind = "text"
    /\ call.h \notin DOMAIN contexts

----------------------------------------------------------------------------
(* Properties of the vocabulary and the tokenizer, under VocabSpec *)

\* C22: encode of the empty string is exactly the one-element sequence
\* [begin-of-sequence id], and the first element of encode(text) is the
\* begin-of-sequence id (2) for every text.
C22_EncodeStartsWithBos ==
    call.op = "tokenizeAdvanced"
    => /\ Len(call.ret) >= 1
       /\ call.ret[1] = 2
       /\ call.text = <<>> => call.ret = <<2>>

\* the empty string has been encoded under a loaded vocabulary
C22_Witness ==
    /\ call.op = "tokenizeAdvanced"
    /\ call.text = <<>>
    /\ call.ret = <<BOS_ID>>
    /\ call.h \in DOMAIN models

\* C23: for every token string s of the loaded vocabulary (the built-in
\* fallback vocabulary included), decoding the ids encode(s) produces after
\* the begin-of-sequence id yields exactly s.
C23_VocabularyRoundTrip ==
    ( /\ call.op = "tokenizeAdvanced"
      /\ call.h \in DOMAIN models
      /\ call.text \in Range(models[call.h].vocab) )
    => call.decoded = call.text

\* the token "I" of the built-in vocabulary was encoded and decodes to
\* "<unk>"
C23_UpperCaseTokenLost ==
    /\ call.op = "tokenizeAdvanced"
    /\ call.h \in DOMAIN models
    /\ call.text = <<"I">>
    /\ call.text \in Range(models[call.h].vocab)
    /\ call.ret = <<BOS_ID, UNK_ID>>
    /\ call.decoded = UnkText

\* the ids C24 describes for the suffix `rest` of a word: the id of the
\* longest prefix of at most 10 characters that is a key of t2i, then the
\* ids of what follows it; the unknown id alone, once, when no prefix is a
\* key
RECURSIVE LongestFirstIds(_, _)
LongestFirstIds(rest, t2i) ==
    IF rest = <<>> THEN <<>>
    ELSE LET known == {n \in 1..Min(10, Len(rest)) :
                          SubSeq(rest, 1, n) \in DOMAIN t2i}
         IN  IF known = {} THEN <<1>>
             ELSE LET n == CHOOSE m \in known : \A j \in known : j <= m
                  IN  <<t2i[SubSeq(rest, 1, n)]>>
                      \o LongestFirstIds(SubSeq(rest, n + 1, Len(rest)), t2i)

\* C24: on a word that misses the string-to-id map, the subword fallback
\* repeatedly takes the longest known prefix of the remaining suffix among
\* the lengths min(10, remaining length) down to 1, emits one id per matched
\* prefix, and emits the unknown id (1) once and stops when no prefix
\* matches; it ends for every word and vocabulary.
C24_SubwordLongestFirst ==
    ( /\ call.op = "tokenizeSubword"
      /\ call.h \in DOMAIN models )
    => /\ call.ret = LongestFirstIds(call.text, models[call.h].token_to_id)
       /\ Len(call.ret) <= Len(call.text)

\* a word longer than 10 characters that is itself a vocabulary token was
\* split into a matched prefix followed by the unknown id
C24_Witness ==
    /\ call.op = "tokenizeSubword"
    /\ call.h \in DOMAIN models
    /\ Len(call.text) > MAX_SUBWORD_LEN
    /\ call.text \in DOMAIN models[call.h].token_to_id
    /\ Len(call.ret) = 2
    /\ call.ret[1] = models[call.h].token_to_id[<<"a">>]
    /\ call.ret[2] = UNK_ID

\* C25: for every successfully loaded model (loadModel returned a non-zero
\* handle) the vocab_size hyperparameter is greater than 0, whatever the
\* container's metadata declares.
C25_VocabSizePositive ==
    \A h \in DOMAIN models : models[h].n_vocab > 0

\* loadModel has returned the handle of a model whose n_vocab is 0
C25_ZeroVocabLoaded ==
    /\ call.op = "loadModel"
    /\ call.ret # 0
    /\ call.ret \in DOMAIN models
    /\ call.file.vocab_size = 0
    /\ models[call.ret].n_vocab = 0

\* C26: after a successful load the vocabulary has exactly vocab_size
\* entries and every id in [0, vocab_size) has exactly one string in the
\* id-to-string map, for an embedded token array of any length and for the
\* built-in set with any vocab_size.
C26_IdSpaceTotal ==
    \A h \in DOMAIN models :
        /\ Len(models[h].vocab) = models[h].n_vocab
        /\ DOMAIN models[h].id_to_token = 0..(models[h].n_vocab - 1)

\* a model was loaded from an embedded token array shorter than the
\* declared vocab_size, and ids below vocab_size have no string
C26_IdsWithoutString ==
    /\ call.op = "loadModel"
    /\ call.ret \in DOMAIN models
    /\ call.file.has_tokens
    /\ Len(call.file.tokens) < call.file.vocab_size
    /\ Len(models[call.ret].vocab) < models[call.ret].n_vocab
    /\ (models[call.ret].n_vocab - 1) \notin DOMAIN models[call.ret].id_to_token

\* C27: in every loaded model the vocabulary's token strings are unique and
\* the id-to-string and string-to-id maps are mutually inverse, also for an
\* embedded token array that repeats a string.
C27_MapsMutuallyInverse ==
    \A h \in DOMAIN models :
        LET m == models[h]
        IN  /\ \A i, j \in 1..Len(m.vocab) : m.vocab[i] = m.vocab[j] => i = j
            /\ \A i \in DOMAIN m.id_to_token :
                   /\ m.id_to_token[i] \in DOMAIN m.token_to_id
                   /\ m.token_to_id[m.id_to_token[i]] = i
            /\ \A s \in DOMAIN m.token_to_id :
                   /\ m.token_to_id[s] \in DOMAIN m.id_to_token
                   /\ m.id_to_token[m.token_to_id[s]] = s

\* a model was loaded from a token array that holds "a" at ids 4 and 6:
\* id 4 maps to "a" and "a" maps to id 6
C27_RepeatedTokenLoaded ==
    /\ call.op = "loadModel"
    /\ call.ret \in DOMAIN models
    /\ call.file.tokens = RepeatTokens
    /\ models[call.ret].id_to_token[4] = <<"a">>
    /\ models[call.ret].token_to_id[<<"a">>] = 6

----------------------------------------------------------------------------
(* Properties of streaming sessions, under StreamSpec *)

\* C29: while a context is Streaming, its running context sequence equals
\* its input tokens followed by its generated-token list, and the length of
\* the generated-token list equals tokens_generated; no operation other
\* than a productive nextStreamingToken (forceCleanup on a streaming
\* context included) alters these sequences.
C29_RunningContextIsInputPlusGenerated ==
    \A h \in DOMAIN contexts :
        contexts[h].is_streaming
            => /\ contexts[h].full_context_tokens
                      = contexts[h].input_tokens
                            \o contexts[h].generated_tokens
               /\ Len(contexts[h].generated_tokens)
                      = contexts[h].tokens_generated

\* forceCleanup ran on a streaming context whose running context was
\* longer than KEEP_THRESHOLD and left it the last KEEP_RECENT ids
C29_StreamingContextTrimmed ==
    /\ call.op = "forceCleanup"
    /\ \E h \in DOMAIN contexts :
           /\ contexts[h].is_streaming
           /\ Len(contexts[h].input_tokens) + contexts[h].tokens_generated
                  > KEEP_THRESHOLD
           /\ Len(contexts[h].generated_tokens) = contexts[h].tokens_generated
           /\ Len(contexts[h].full_context_tokens) = KEEP_RECENT

----------------------------------------------------------------------------
(* Properties of the sampler, under SampleSpec *)

\* C31: the id sampled by nextStreamingToken is always one of the K
\* highest-probability ids, K = min(50, vocabulary size), for every logit
\* vector and every random draw in [0, 1], and it lies in [0, vocab_size).
C31_SampledAmongTopK ==
    (call.op = "sample" /\ call.returned)
    => LET probs == Probs(call.logits)
           n     == Cardinality(DOMAIN call.logits)
       IN  /\ call.ret \in 0..(n - 1)
           /\ Cardinality({j \in DOMAIN probs : probs[j] > probs[call.ret]})
                  < Min(TOP_K, n)

\* with more than TOP_K ids and a draw above the cumulative probability of
\* the top TOP_K, the sampler returned id 0, which TOP_K ids outrank
C31_FallThroughToIdZero ==
    /\ call.op = "sample"
    /\ call.returned
    /\ call.draw = DrawSteps
    /\ Cardinality(DOMAIN call.logits) > TOP_K
    /\ call.ret = 0
    /\ Cardinality({j \in DOMAIN call.logits :
                       call.logits[j] > call.logits[0]}) >= TOP_K

----------------------------------------------------------------------------
(* Properties of the tensor section of the loader, under TensorSpec *)

\* C33: every tensor buffer's element count is fixed at creation by its
\* declared quantization kind and byte size b: full precision gives
\* min(b/4, 256), half precision min(b/2, 512), the Q4_K, Q4_0 and Q6_K
\* block formats min(128, b/8), any other kind min(b, 1024); no buffer has
\* more than 1024 elements.
C33_ElementCountByKind ==
    (call.op = "loadModel" /\ call.ret \in DOMAIN models)
    => LET tensors == models[call.ret].tensors
           dir     == call.file.tensors
           rule(e) ==
               IF e.type = "F32"
               THEN IF e.size \div 4 < 256 THEN e.size \div 4 ELSE 256
               ELSE IF e.type = "F16"
               THEN IF e.size \div 2 < 512 THEN e.size \div 2 ELSE 512
               ELSE IF e.type \in {"Q4_K", "Q4_0", "Q6_K"}
               THEN IF e.size \div 8 < 128 THEN e.size \div 8 ELSE 128
               ELSE IF e.size < 1024 THEN e.size ELSE 1024
       IN  \A n \in DOMAIN tensors :
              /\ tensors[n] <= 1024
              /\ call.built.decoded
                 => \E i \in 1..Len(dir) :
                       dir[i].name = n /\ tensors[n] = rule(dir[i])

\* a half-precision tensor of 8192 bytes was decoded into 512 elements
C33_Witness ==
    /\ call.op = "loadModel"
    /\ call.ret \in DOMAIN models
    /\ call.built.decoded
    /\ call.file.tensors = <<Entry("token_embd.weight", "F16", 8192)>>
    /\ models[call.ret].tensors["token_embd.weight"] = 512

\* C34: if no tensor of the directory decodes successfully (none is selected
\* or the first selected one fails), the loader synthesizes exactly two demo
\* tensors, token_embd.weight and output.weight; every model for which
\* loadModel returns a non-zero handle has at least one tensor.
C34_DemoTensorsWhenNoneDecoded ==
    call.op = "loadModel"
    => /\ (call.built.status = "true" /\ ~call.built.decoded)
          => DOMAIN call.built.tensors
                 = {"token_embd.weight", "output.weight"}
       /\ call.ret # 0
          => /\ call.ret \in DOMAIN models
             /\ DOMAIN models[call.ret].tensors # {}

\* the loader returned true with no tensor decoded and only one demo
\* tensor, and loadModel registered that model
C34_OneDemoTensor ==
    /\ call.op = "loadModel"
    /\ call.built.status = "true"
    /\ ~call.built.decoded
    /\ call.ret \in DOMAIN models
    /\ DOMAIN models[call.ret].tensors = {"token_embd.weight"}

----------------------------------------------------------------------------
(* Properties of the encoder's ids, under VocabSpec *)

\* C38: every id that encode produces for any text lies in [0, vocab_size)
\* of the model it encodes against, for every loaded model, including a
\* model that uses the built-in fallback vocabulary with a vocab_size
\* smaller than the number of built-in tokens.
C38_EncodedIdsBelowVocabSize ==
    (call.op = "tokenizeAdvanced" /\ call.h \in DOMAIN models)
    => \A i \in 1..Len(call.ret) :
           call.ret[i] \in 0..(models[call.h].n_vocab - 1)

\* encode against a model with the built-in vocabulary and a vocab_size of
\* three less than the built-in tokens returned the id of the last built-in
\* token
C38_IdBeyondVocabSize ==
    /\ call.op = "tokenizeAdvanced"
    /\ call.h \in DOMAIN models
    /\ models[call.h].n_vocab = Len(basic_tokens) - 3
    /\ models[call.h].vocab[Len(basic_tokens)] = basic_tokens[Len(basic_tokens)]
    /\ \E i \in 1..Len(call.ret) : call.ret[i] = Len(basic_tokens) - 1

====
